---- MODULE Spec2Model ----
(***************************************************************************)
(* State-machine model of shared/unifi_client.py (class UniFiClient): one  *)
(* client instance, the aiohttp sessions it opens, one lifecycle caller    *)
(* (connect / disconnect / test_connection, which callers serialise) and   *)
(* worker callers issuing directory and control operations that may        *)
(* overlap with the lifecycle caller.  Every action is the code between    *)
(* two awaits of one coroutine.  The modules around the client (login rate *)
(* limiting and web sessions, the TTL cache, credential encryption, the    *)
(* threat intelligence lookup) are modelled beside it, each with a         *)
(* specification of its own.                                               *)
(***************************************************************************)
EXTENDS Integers, Sequences, FiniteSets, TLC

VARIABLES
    api_key,     \* self.api_key (constructor argument, immutable)
    site,        \* self.site    (constructor argument, immutable)
    session,     \* self._session: 0 is None, otherwise the id of a ClientSession
    controller,  \* self.controller: 0 is None, otherwise the id of the session it wraps
    opened,      \* number of ClientSession objects created so far (ids 1..opened)
    closed,      \* ids of the sessions whose close() has run
    sessHdr,     \* default headers of each session created (id -> header value)
    lastLife,    \* history: the last lifecycle event of the instance
    registry,    \* the controller's user registry (rest/user), server side
    life,        \* the lifecycle caller's coroutine frame
    work,        \* the worker callers' coroutine frames
    utcnow,          \* app/routers/auth.py: datetime.utcnow(), in seconds
    login_attempts,  \* app/routers/auth.py: _login_attempts, ip -> list of (timestamp, success)
    limit,           \* the result of the check_rate_limit call just made, if any
    sessions,        \* app/routers/auth.py: _sessions, token -> session data
    issued,          \* history: every session create_session made, by token
    verified,        \* the result of the verify_session call just made, if any
    cache,           \* shared/cache.py: _cache, key -> (data, timestamp)
    got,             \* the cache call just made and its result, if any
    calls,           \* history: the writes and invalidations of the cache, oldest first
    encryption_key,  \* settings.encryption_key
    crypt,           \* the caller of shared/crypto.py: its input and what it got back
    abuseipdb_api_key,  \* settings.abuseipdb_api_key
    lookup           \* the check_ip request being served

\* the state of UniFiClient and of its callers
clientVars == <<api_key, site, session, controller, opened, closed, sessHdr, lastLife, registry, life, work>>

\* the state of the application modules around it
authVars == <<login_attempts, limit>>

sessionVars == <<sessions, issued, verified>>

cacheVars == <<cache, got, calls>>

cryptoVars == <<encryption_key, crypt>>

intelVars == <<abuseipdb_api_key, lookup>>

appVars == <<utcnow, authVars, sessionVars, cacheVars, cryptoVars, intelVars>>

vars == <<clientVars, appVars>>

\* ------------------------------------------------------------------ bounds
MaxSessions == 2

\* --------------------------------------------------------------- constants
NoKey == "<None>"
ApiKeys == {NoKey, "", "k1"}
Sites == {"default", "lab"}
Workers == {"w1"}

ProxyBase == "/proxy/network/api/s/"
LegacyBase == "/api/s/"
LibBase == "<aiounifi>"

NotConnectedMsg == "Not connected to UniFi controller. Call connect() first."
NoControllerMsg == "Controller not initialized"
ConnectFailedMsg == "Failed to connect to UniFi controller"
SessionClosedMsg == "Session is closed"
TransportMsg == "ClientError"
ParseMsg == "cannot parse response"

\* ------------------------------------------------------------ MAC strings
\* A string is a sequence of one-character strings.
LowerChar(ch) ==
    CASE ch = "A" -> "a"
      [] ch = "B" -> "b"
      [] OTHER -> ch

Lower(s) == [i \in DOMAIN s |-> LowerChar(s[i])]

Replace(s, old, new) == [i \in DOMAIN s |-> IF s[i] = old THEN new ELSE s[i]]

\* mutant: the "." separator is left as it is
NormalizeMac_DotKept(s) == Replace(Lower(s), "-", ":")

\* mac.lower().replace("-", ":").replace(".", ":")
NormalizeMac(s) == Replace(Replace(Lower(s), "-", ":"), ".", ":")

\* -------------------------------------------------------- python values
Str(s) == [k |-> "str", s |-> s]
Null == [k |-> "null"]
Absent == [k |-> "absent"]

\* dict.get(field, default): an absent field gives the default, a null one None
Get(v, default) == IF v = Absent THEN default ELSE v

\* ----------------------------------------------------------- return values
NoRet == [kind |-> "none"]
NoneRet == [kind |-> "None"]
BoolRet(b) == [kind |-> "bool", val |-> b]
Raised(msg) == [kind |-> "raised", error |-> msg]
DictRet(d) == [kind |-> "dict", val |-> d]
ValRet(v) == [kind |-> "value", val |-> v]
\* mutant: the two counts exchanged
TestOk_CountsSwapped(nc, na, s) ==
    [kind |-> "result", connected |-> TRUE, client_count |-> na, ap_count |-> nc, site |-> s]

TestOk(nc, na, s) ==
    [kind |-> "result", connected |-> TRUE, client_count |-> nc, ap_count |-> na, site |-> s]
TestFail(msg) == [kind |-> "result", connected |-> FALSE, error |-> msg]

\* ---------------------------------------------------------------- requests
NoReq == [method |-> "none"]

\* a request the client code sends through session sid
Req(method, base, ep, sid, hdr) ==
    [method |-> method, base |-> base, site |-> site, ep |-> ep,
     sid |-> sid, hdr |-> hdr, body |-> Absent]

\* a request the aiounifi Controller sends through the session it wraps
LibReq(what, sid, hdr) ==
    [method |-> "lib", base |-> LibBase, site |-> site, ep |-> what,
     sid |-> sid, hdr |-> hdr, body |-> Absent]

\* self.is_unifi_os = api_key is not None
is_unifi_os == api_key # NoKey

\* headers = {}; if self.api_key: headers['X-API-KEY'] = self.api_key
SessionHeaders == IF api_key # NoKey /\ api_key # "" THEN api_key ELSE NoKey

\* ------------------------------------------------------ controller replies
HttpReply(st, body) == [kind |-> "http", status |-> st, body |-> body]
NetError == [kind |-> "exc"]

\* a JSON body {"data": [...]}, a JSON body without "data", a body that is not JSON
Json(data) == [json |-> TRUE, data |-> data]
NotJson == [json |-> FALSE, data |-> Absent]

MacAB == <<"a", ":", "b">>
MacBA == <<"b", ":", "a">>
MacInputs == {MacAB, <<"A", "-", "B">>, <<"a", ".", "b">>, MacBA}

RawClient(mac, tx, rx) == [mac |-> mac, tx_rate |-> tx, rx_rate |-> rx]
RawDevice(mac, type, name, model) == [mac |-> mac, type |-> type, name |-> name, model |-> model]

Num(n) == [k |-> "num", n |-> n]

ClientBodies ==
    { Json(Str(<<>>)),
      Json(Str(<<RawClient(Str(<<"A", ":", "B">>), Num(54000), Absent)>>)),
      Json(Str(<<RawClient(Str(MacAB), Num(0), Null), RawClient(Str(MacBA), Num(1240), Num(54000))>>)),
      Json(Str(<<RawClient(Absent, Absent, Absent), RawClient(Str(MacBA), Absent, Absent)>>)),
      Json(Str(<<RawClient(Null, Absent, Absent), RawClient(Str(MacBA), Absent, Absent)>>)),
      Json(Absent),
      NotJson }

DeviceBodies ==
    { Json(Str(<<>>)),
      Json(Str(<<RawDevice(Str(<<"A", ":", "B">>), Str("uap"), Str("Lobby-AP"), Str("U6-Pro")),
                 RawDevice(Str(MacBA), Str("usw"), Str("Switch"), Str("US-8"))>>)),
      Json(Str(<<RawDevice(Str(MacAB), Str("uap"), Absent, Str("U6-Pro")),
                 RawDevice(Str(MacBA), Str("uap"), Null, Null)>>)),
      Json(Str(<<RawDevice(Null, Str("uap"), Absent, Absent)>>)),
      NotJson }

Statuses == {200, 401}

ApiFailedMsg(st) == IF st = 401 THEN "API request failed: 401" ELSE "API request failed"

\* replies to the API-key probe of connect(): only the status is read
ProbeReplies == {HttpReply(st, NotJson) : st \in Statuses} \cup {NetError}
ClientReplies == {HttpReply(200, b) : b \in ClientBodies} \cup {HttpReply(401, NotJson), NetError}
DeviceReplies == {HttpReply(200, b) : b \in DeviceBodies} \cup {HttpReply(401, NotJson), NetError}

\* outcomes of the aiounifi Controller: login() / initialize() return or raise;
\* after initialize() the controller holds its client and device tables
LibOk(tables) == [kind |-> "lib", ok |-> TRUE, clients |-> tables[1], devices |-> tables[2]]
LibError == [kind |-> "lib", ok |-> FALSE]
LibObject(mac, name, model) == [mac |-> mac, name |-> name, model |-> model]
LibTables ==
    { << <<>>, <<>> >>,
      << (MacAB :> LibObject(MacAB, "phone", "")),
         (MacBA :> LibObject(MacBA, "Lobby-AP", "U6-Pro")) >> }
LoginReplies == {LibOk(<< <<>>, <<>> >>), LibError}
InitializeReplies == {LibOk(t) : t \in LibTables} \cup {LibError}

\* ------------------------------------------------------------ enumeration
\* d[key] = value of a python dict held as a function
Put(d, key, value) == [x \in (DOMAIN d) \cup {key} |-> IF x = key THEN value ELSE d[x]]

EmptyDict == [x \in {} |-> Null]

\* floor(log2(m)) for m >= 1
RECURSIVE Log2Floor(_)
Log2Floor(m) == IF m < 2 THEN 0 ELSE 1 + Log2Floor(m \div 2)

\* p / 20 for an odd p that 5 does not divide is not a binary fraction: whether
\* the double nearest to it (the value of n / 1000 for n = 50 * p) lies above it.
\* With 5 * 2^e <= p < 5 * 2^(e+1) the 53-bit significand is p * 2^(52-e) / 5
\* rounded to nearest, which rounds up when the remainder modulo 5 is 3 or 4.
DoubleAbove(p) ==
    LET e == IF p >= 5 THEN Log2Floor(p \div 5) ELSE IF p = 1 THEN -3 ELSE -1
        rem == ((p % 5) * 2^((52 - e) % 4)) % 5
    IN  rem \in {3, 4}

\* round(n / 1000, 1) in tenths: python rounds the double to the nearest
\* one-decimal value, and to the even one when the double is exactly halfway
RoundTenths(n) ==
    LET q == n \div 100
        r == n % 100
        p == 2 * q + 1
    IN  IF r < 50 THEN q
        ELSE IF r > 50 THEN q + 1
        ELSE IF p % 5 = 0 THEN (IF q % 2 = 0 THEN q ELSE q + 1)
        ELSE IF DoubleAbove(p) THEN q + 1
        ELSE q

\* round(rate / 1000, 1) if rate else None, the result held in tenths of a Mbps
RateMbps(v) ==
    IF v.k = "num" /\ v.n # 0
    THEN Num(RoundTenths(v.n))
    ELSE Null

\* the loop of get_clients over the raw records: the dict built, or the exception
\* of client.get('mac', '').lower() on a null mac
RECURSIVE ClientsLoop(_, _, _)
ClientsLoop(list, i, acc) ==
    IF i > Len(list) THEN DictRet(acc)
    ELSE LET mac == Get(list[i].mac, Str(<<>>)) IN
         IF mac.k # "str" THEN Raised("'NoneType' object has no attribute 'lower'")
         ELSE IF Lower(mac.s) = <<>> THEN ClientsLoop(list, i + 1, acc)
         ELSE ClientsLoop(list, i + 1,
                  Put(acc, Lower(mac.s),
                      [mac |-> Lower(mac.s),
                       tx_rate |-> RateMbps(Get(list[i].tx_rate, Null)),
                       rx_rate |-> RateMbps(Get(list[i].rx_rate, Null))]))

\* mutant: devices of every type are kept
RECURSIVE DevicesLoop_AnyType(_, _, _)
DevicesLoop_AnyType(list, i, acc) ==
    IF i > Len(list) THEN DictRet(acc)
    ELSE LET mac == Get(list[i].mac, Str(<<>>)) IN
         IF mac.k # "str" THEN Raised("'NoneType' object has no attribute 'lower'")
         ELSE IF Lower(mac.s) = <<>> THEN DevicesLoop_AnyType(list, i + 1, acc)
         ELSE DevicesLoop_AnyType(list, i + 1,
                  Put(acc, Lower(mac.s),
                      [mac |-> Lower(mac.s),
                       name |-> Get(list[i].name, Null),
                       model |-> Get(list[i].model, Null),
                       type |-> Get(list[i].type, Null)]))

\* the loop of get_access_points: only type 'uap', keyed by mac.lower()
RECURSIVE DevicesLoop(_, _, _)
DevicesLoop(list, i, acc) ==
    IF i > Len(list) THEN DictRet(acc)
    ELSE IF Get(list[i].type, Null) # Str("uap") THEN DevicesLoop(list, i + 1, acc)
    ELSE LET mac == Get(list[i].mac, Str(<<>>)) IN
         IF mac.k # "str" THEN Raised("'NoneType' object has no attribute 'lower'")
         ELSE IF Lower(mac.s) = <<>> THEN DevicesLoop(list, i + 1, acc)
         ELSE DevicesLoop(list, i + 1,
                  Put(acc, Lower(mac.s),
                      [mac |-> Lower(mac.s),
                       name |-> Get(list[i].name, Null),
                       model |-> Get(list[i].model, Null),
                       type |-> Get(list[i].type, Null)]))

\* mutant: a non-200 answer yields an empty dictionary
ClientsFromReply_EmptyOnFailure(r) ==
    IF r.kind = "exc" THEN Raised(TransportMsg)
    ELSE IF r.status # 200 THEN DictRet(EmptyDict)
    ELSE IF ~r.body.json THEN Raised(ParseMsg)
    ELSE ClientsLoop(Get(r.body.data, Str(<<>>)).s, 1, EmptyDict)

\* get_clients after its request was answered (UniFi OS branch, lines 132-170)
ClientsFromReply(r) ==
    IF r.kind = "exc" THEN Raised(TransportMsg)
    ELSE IF r.status # 200 THEN Raised(ApiFailedMsg(r.status))
    ELSE IF ~r.body.json THEN Raised(ParseMsg)
    ELSE ClientsLoop(Get(r.body.data, Str(<<>>)).s, 1, EmptyDict)

\* get_access_points after its request was answered (UniFi OS branch, lines 215-237)
DevicesFromReply(r) ==
    IF r.kind = "exc" THEN Raised(TransportMsg)
    ELSE IF r.status # 200 THEN Raised(ApiFailedMsg(r.status))
    ELSE IF ~r.body.json THEN Raised(ParseMsg)
    ELSE DevicesLoop(Get(r.body.data, Str(<<>>)).s, 1, EmptyDict)

\* the legacy branch: await self.controller.initialize(); return self.controller.clients
ClientsFromController(r) == IF r.ok THEN DictRet(r.clients) ELSE Raised(TransportMsg)

\* await self.controller.initialize(); return self.controller.devices
DevicesFromController(r) == IF r.ok THEN DictRet(r.devices) ELSE Raised(TransportMsg)

\* ------------------------------------------------- login rate limiting
\* app/routers/auth.py, the module under test in tests/test_auth.py
Ips == {"ip1", "ip2"}

NoCheck == [kind |-> "none"]

RATE_LIMIT_WINDOW == 300

MAX_LOGIN_ATTEMPTS == 5

Attempt(ts, ok) == [ts |-> ts, success |-> ok]

\* the attempts of a list that lie in the window ending at t
Recent(list, t) == SelectSeq(list, LAMBDA a : a.ts > t - RATE_LIMIT_WINDOW)

Failures(list) == SelectSeq(list, LAMBDA a : ~a.success)

\* mutant: every attempt in the window counts, failed or not
CheckRateLimit_CountsAll(ip) ==
    LET failed == Recent(login_attempts[ip], utcnow) IN
    IF Len(failed) >= MAX_LOGIN_ATTEMPTS
    THEN [kind |-> "check", ip |-> ip, allowed |-> FALSE,
          wait |-> failed[1].ts + RATE_LIMIT_WINDOW - utcnow]
    ELSE [kind |-> "check", ip |-> ip, allowed |-> TRUE, wait |-> 0]

\* check_rate_limit(ip) -> (is_allowed, wait_seconds): refused once
\* MAX_LOGIN_ATTEMPTS failed attempts of ip lie in the window, the wait running
\* until the oldest of them leaves it
CheckRateLimit(ip) ==
    LET failed == Failures(Recent(login_attempts[ip], utcnow)) IN
    IF Len(failed) >= MAX_LOGIN_ATTEMPTS
    THEN [kind |-> "check", ip |-> ip, allowed |-> FALSE,
          wait |-> failed[1].ts + RATE_LIMIT_WINDOW - utcnow]
    ELSE [kind |-> "check", ip |-> ip, allowed |-> TRUE, wait |-> 0]

\* mutant: the attempt is appended and nothing is removed
RecordLoginAttempt_NoCleanup(ip, success) ==
    Append(login_attempts[ip], Attempt(utcnow, success))

\* record_login_attempt(ip, success): the list of ip after the call: the
\* attempt appended, the attempts older than the window removed
RecordLoginAttempt(ip, success) ==
    Recent(Append(login_attempts[ip], Attempt(utcnow, success)), utcnow)

AuthIdle ==
    /\ login_attempts = [ip \in Ips |-> <<>>]
    /\ limit = NoCheck

\* --------------------------------------------------------- web sessions
\* app/routers/auth.py, the module under test in tests/test_auth.py
Usernames == {"admin", "guest"}

\* a token create_session never returned
InvalidToken == 0

NoVerify == [kind |-> "none"]

\* timedelta(days=7), in seconds
SESSION_LIFETIME == 604800

SessionData(username, expires_at) == [username |-> username, expires_at |-> expires_at]

Remove(d, key) == [x \in (DOMAIN d) \ {key} |-> d[x]]

\* create_session(username) -> token: a token not used before, stored with
\* the username and an expiry SESSION_LIFETIME from now
CreateSession(username) ==
    LET token == Len(issued) + 1 IN
    [token |-> token,
     sessions |-> Put(sessions, token, SessionData(username, utcnow + SESSION_LIFETIME))]

\* mutant: an expired session is refused but stays in the store
VerifySession_KeepsExpired(token) ==
    IF token \notin DOMAIN sessions
    THEN [result |-> Null, sessions |-> sessions]
    ELSE IF utcnow > sessions[token].expires_at
         THEN [result |-> Null, sessions |-> sessions]
         ELSE [result |-> sessions[token], sessions |-> sessions]

\* verify_session(token) -> session data or None: None for a token that is not
\* stored; an expired session is deleted and None returned
VerifySession(token) ==
    IF token \notin DOMAIN sessions
    THEN [result |-> Null, sessions |-> sessions]
    ELSE IF utcnow > sessions[token].expires_at
         THEN [result |-> Null, sessions |-> Remove(sessions, token)]
         ELSE [result |-> sessions[token], sessions |-> sessions]

SessionIdle ==
    /\ sessions = EmptyDict
    /\ issued = <<>>
    /\ verified = NoVerify

\* ------------------------------------------------------------ TTL cache
\* shared/cache.py, the module under test in tests/test_cache.py
CacheKeys == {"gateway_info", "ips_settings", "system_status"}

CACHE_TTL_SECONDS == 30

NoCall == [kind |-> "none"]

Entry(data, timestamp) == [data |-> data, timestamp |-> timestamp]

\* mutant: an entry is served whatever its age
ReadEntry_NoExpiry(c, key, t) ==
    IF key \notin DOMAIN c
    THEN Null
    ELSE c[key].data

\* get_gateway_info() / get_ips_settings() / get_system_status() on the cache
\* c at time t: the data of the entry while its age is below the TTL
ReadEntry(c, key, t) ==
    IF key \notin DOMAIN c
    THEN Null
    ELSE IF t - c[key].timestamp < CACHE_TTL_SECONDS
         THEN c[key].data
         ELSE Null

\* set_gateway_info(data) / set_ips_settings(data) / set_system_status(data)
SetEntry(key, data) == Put(cache, key, Entry(data, utcnow))

\* mutant: invalidating one key empties the cache
Invalidate_ClearsAll(key) == EmptyDict

\* invalidate(key): the entry of key is dropped if there is one
Invalidate(key) == Remove(cache, key)

\* invalidate_all()
InvalidateAll == EmptyDict

CacheIdle ==
    /\ cache = EmptyDict
    /\ got = NoCall
    /\ calls = <<>>

\* -------------------------------------------------- credential encryption
\* shared/crypto.py.  A str is a sequence of code points, bytes a sequence of
\* integers 0..255.
EncodeErrorMsg == "UnicodeEncodeError"

DecodeErrorMsg == "UnicodeDecodeError"

InvalidTokenMsg == "InvalidToken"

IsSurrogate(cp) == cp >= 55296 /\ cp <= 57343

\* the UTF-8 bytes of one code point that is not a surrogate
Utf8Bytes(cp) ==
    IF cp < 128 THEN <<cp>>
    ELSE IF cp < 2048 THEN <<192 + (cp \div 64), 128 + (cp % 64)>>
    ELSE IF cp < 65536
         THEN <<224 + (cp \div 4096), 128 + ((cp \div 64) % 64), 128 + (cp % 64)>>
         ELSE <<240 + (cp \div 262144), 128 + ((cp \div 4096) % 64),
                128 + ((cp \div 64) % 64), 128 + (cp % 64)>>

\* str.encode(): strict UTF-8, a lone surrogate cannot be encoded
RECURSIVE Encode(_, _, _)
Encode(str, i, acc) ==
    IF i > Len(str)
    THEN ValRet(acc)
    ELSE IF IsSurrogate(str[i])
         THEN Raised(EncodeErrorMsg)
         ELSE Encode(str, i + 1, acc \o Utf8Bytes(str[i]))

IsContinuation(b, i) == i <= Len(b) /\ b[i] >= 128 /\ b[i] <= 191

\* bytes.decode(): strict UTF-8; truncated, overlong and surrogate sequences
\* and bytes that start no sequence are errors
RECURSIVE Decode(_, _, _)
Decode(b, i, acc) ==
    IF i > Len(b)
    THEN ValRet(acc)
    ELSE IF b[i] < 128
         THEN Decode(b, i + 1, Append(acc, b[i]))
    ELSE IF b[i] >= 194 /\ b[i] <= 223 /\ IsContinuation(b, i + 1)
         THEN Decode(b, i + 2, Append(acc, ((b[i] - 192) * 64) + (b[i + 1] - 128)))
    ELSE IF b[i] >= 224 /\ b[i] <= 239 /\ IsContinuation(b, i + 1) /\ IsContinuation(b, i + 2)
         THEN LET cp == ((b[i] - 224) * 4096) + ((b[i + 1] - 128) * 64) + (b[i + 2] - 128) IN
              IF cp < 2048 \/ IsSurrogate(cp)
              THEN Raised(DecodeErrorMsg)
              ELSE Decode(b, i + 3, Append(acc, cp))
    ELSE IF b[i] >= 240 /\ b[i] <= 244 /\ IsContinuation(b, i + 1) /\ IsContinuation(b, i + 2)
            /\ IsContinuation(b, i + 3)
         THEN LET cp == ((b[i] - 240) * 262144) + ((b[i + 1] - 128) * 4096)
                        + ((b[i + 2] - 128) * 64) + (b[i + 3] - 128) IN
              IF cp < 65536 \/ cp > 1114111
              THEN Raised(DecodeErrorMsg)
              ELSE Decode(b, i + 4, Append(acc, cp))
    ELSE Raised(DecodeErrorMsg)

\* bytes handed to decrypt that no Fernet made
RawBytes(b) == [k |-> "bytes", b |-> b]

\* Fernet(key).encrypt(data): a token sealed under key, fresh for every call
\* (iv stands for the random IV and the timestamp)
FernetEncrypt(key, data, iv) == [k |-> "token", key |-> key, iv |-> iv, data |-> data]

\* Fernet(key).decrypt(token): the data of a token sealed under key,
\* InvalidToken for anything else
FernetDecrypt(key, token) ==
    IF token.k = "token" /\ token.key = key
    THEN ValRet(token.data)
    ELSE Raised(InvalidTokenMsg)

\* encrypt_password(password): cipher.encrypt(password.encode())
EncryptPassword(password, iv) ==
    LET data == Encode(password, 1, <<>>) IN
    IF data.kind = "raised"
    THEN data
    ELSE ValRet(FernetEncrypt(encryption_key, data.val, iv))

\* mutant: the decrypted bytes are returned as they are
DecryptPassword_NoDecode(encrypted_password) ==
    FernetDecrypt(encryption_key, encrypted_password)

\* decrypt_password(encrypted_password): cipher.decrypt(encrypted_password).decode()
DecryptPassword(encrypted_password) ==
    LET data == FernetDecrypt(encryption_key, encrypted_password) IN
    IF data.kind = "raised"
    THEN data
    ELSE Decode(data.val, 1, <<>>)

\* encrypt_api_key = encrypt_password
EncryptApiKey(password, iv) == EncryptPassword(password, iv)

\* decrypt_api_key = decrypt_password
DecryptApiKey(encrypted_password) == DecryptPassword(encrypted_password)

EncryptionKeys == {"key1", "key2"}

NoCrypt == [pc |-> "none"]

CryptoIdle ==
    /\ encryption_key = "key1"
    /\ crypt = NoCrypt

\* tools/threat_watch/routers/intel.py: no key configured, no request served
NoLookup == [pc |-> "idle"]

IntelIdle ==
    /\ abuseipdb_api_key = NoKey
    /\ lookup = NoLookup

\* the application modules as imported: nothing recorded, stored or cached
AppIdle ==
    /\ utcnow = 0
    /\ AuthIdle
    /\ SessionIdle
    /\ CacheIdle
    /\ CryptoIdle
    /\ IntelIdle

\* ------------------------------------------------------- coroutine frames
IdleLife ==
    [op |-> "none", pc |-> "idle", req |-> NoReq, sid |-> 0, nreq |-> 0,
     replies |-> <<>>, ret |-> NoRet, nc |-> 0, from |-> "none", ev |-> "none"]

Stay(ret) == [go |-> FALSE, req |-> NoReq, ret |-> ret]
Go(req) == [go |-> TRUE, req |-> req, ret |-> NoRet]

\* get_clients up to its first await (lines 125-132 and 172-177)
GetClientsStart ==
    IF session = 0 THEN Stay(Raised(NotConnectedMsg))
    ELSE IF is_unifi_os
    THEN IF session \in closed THEN Stay(Raised(SessionClosedMsg))
         ELSE Go(Req("GET", ProxyBase, "stat/sta", session, sessHdr[session]))
    ELSE IF controller = 0 THEN Stay(Raised(NoControllerMsg))
    ELSE IF controller \in closed THEN Stay(Raised(SessionClosedMsg))
    ELSE Go(LibReq("initialize", controller, sessHdr[controller]))

\* get_access_points up to its first await (lines 208-215 and 239-244)
GetAccessPointsStart ==
    IF session = 0 THEN Stay(Raised(NotConnectedMsg))
    ELSE IF is_unifi_os
    THEN IF session \in closed THEN Stay(Raised(SessionClosedMsg))
         ELSE Go(Req("GET", ProxyBase, "stat/device", session, sessHdr[session]))
    ELSE IF controller = 0 THEN Stay(Raised(NoControllerMsg))
    ELSE IF controller \in closed THEN Stay(Raised(SessionClosedMsg))
    ELSE Go(LibReq("initialize", controller, sessHdr[controller]))

\* get_clients / get_access_points once the awaited call has answered
GetClientsEnd(r) == IF is_unifi_os THEN ClientsFromReply(r) ELSE ClientsFromController(r)
GetAccessPointsEnd(r) == IF is_unifi_os THEN DevicesFromReply(r) ELSE DevicesFromController(r)

ClientsReplySet == IF is_unifi_os THEN ClientReplies ELSE InitializeReplies
DevicesReplySet == IF is_unifi_os THEN DeviceReplies ELSE InitializeReplies

\* ------------------------------------------------------------- lifecycle
\* mutant: the session is dropped without being closed
DisconnectBody_NoClose(f, now) ==
    /\ session' = 0
    /\ controller' = 0
    /\ life' = [f EXCEPT !.pc = "done", !.req = NoReq]
    /\ lastLife' = f.ev
    /\ UNCHANGED closed

\* mutant: the guard reads self._session.closed without testing self._session
DisconnectBody_NoneCheckMissing(f, now) ==
    IF session # 0 /\ session \notin closed
    THEN /\ closed' = closed \cup {session}
         /\ life' = [f EXCEPT !.pc = "closing", !.req = NoReq]
         /\ lastLife' = now
         /\ UNCHANGED <<session, controller>>
    ELSE /\ life' = [f EXCEPT !.pc = "done", !.req = NoReq,
                              !.ret = IF session = 0
                                      THEN Raised("'NoneType' object has no attribute 'closed'")
                                      ELSE f.ret]
         /\ lastLife' = f.ev
         /\ UNCHANGED <<session, controller, closed>>

\* disconnect() (lines 113-116) run by the lifecycle caller with frame f, whose
\* ret and ev say what the caller returns and records once disconnect is over.
\* `now` is the lifecycle event standing while close() is awaited.
DisconnectBody(f, now) ==
    IF session # 0 /\ session \notin closed
    THEN /\ closed' = closed \cup {session}
         /\ life' = [f EXCEPT !.pc = "closing", !.req = NoReq]
         /\ lastLife' = now
         /\ UNCHANGED <<session, controller>>
    ELSE /\ session' = 0
         /\ controller' = 0
         /\ life' = [f EXCEPT !.pc = "done", !.req = NoReq]
         /\ lastLife' = f.ev
         /\ UNCHANGED closed

\* mutant: self.controller is left standing
DisconnectClear_KeepsController ==
    /\ life.pc = "closing"
    /\ session' = 0
    /\ life' = [life EXCEPT !.pc = "done"]
    /\ lastLife' = life.ev
    /\ UNCHANGED <<appVars, api_key, site, controller, opened, closed, sessHdr, registry, work>>

\* the second half of disconnect(): lines 115-116 after close() was awaited
DisconnectClear ==
    /\ life.pc = "closing"
    /\ session' = 0
    /\ controller' = 0
    /\ life' = [life EXCEPT !.pc = "done"]
    /\ lastLife' = life.ev
    /\ UNCHANGED <<appVars, api_key, site, opened, closed, sessHdr, registry, work>>

\* disconnect() called by the lifecycle caller
Disconnect ==
    /\ life.pc = "idle"
    /\ DisconnectBody([IdleLife EXCEPT !.op = "disconnect", !.ret = NoneRet,
                                       !.from = lastLife, !.ev = "disconnected"], lastLife)
    /\ UNCHANGED <<appVars, api_key, site, opened, sessHdr, registry, work>>

\* mutant: the aiounifi Controller is never created
ConnectBody_NoController(op) ==
    LET sid == opened + 1 IN
    /\ life.pc = "idle"
    /\ opened < MaxSessions
    /\ opened' = sid
    /\ sessHdr' = Append(sessHdr, SessionHeaders)
    /\ session' = sid
    /\ controller' = controller
    /\ life' = [IdleLife EXCEPT
                  !.op = op, !.pc = "c_await", !.sid = sid, !.nreq = 1, !.from = lastLife,
                  !.req = IF is_unifi_os
                          THEN Req("GET", ProxyBase, "stat/device", sid, SessionHeaders)
                          ELSE LibReq("login", sid, SessionHeaders)]
    /\ lastLife' = "connecting"
    /\ UNCHANGED <<appVars, api_key, site, closed, registry, work>>

\* connect() up to its await (lines 57-81 with an API key, 57-100 without)
ConnectBody(op) ==
    LET sid == opened + 1 IN
    /\ life.pc = "idle"
    /\ opened < MaxSessions
    /\ opened' = sid
    /\ sessHdr' = Append(sessHdr, SessionHeaders)
    /\ session' = sid
    /\ controller' = IF is_unifi_os THEN controller ELSE sid
    /\ life' = [IdleLife EXCEPT
                  !.op = op, !.pc = "c_await", !.sid = sid, !.nreq = 1, !.from = lastLife,
                  !.req = IF is_unifi_os
                          THEN Req("GET", ProxyBase, "stat/device", sid, SessionHeaders)
                          ELSE LibReq("login", sid, SessionHeaders)]
    /\ lastLife' = "connecting"
    /\ UNCHANGED <<appVars, api_key, site, closed, registry, work>>

Connect == ConnectBody("connect")

TestConnection == ConnectBody("test_connection")

\* mutant: any answered probe counts as success
ConnectSucceeds_IgnoresStatus(r) == IF is_unifi_os THEN r.kind = "http" ELSE r.ok

\* whether the awaited probe / login lets connect() return True (lines 82-87, 100-102)
ConnectSucceeds(r) == IF is_unifi_os THEN r.kind = "http" /\ r.status = 200 ELSE r.ok

\* test_connection after connect() returned True: get_clients up to its await,
\* or the except / finally path when it raises at once (lines 421, 431-438)
TestAfterConnect(f) ==
    LET st == GetClientsStart IN
    IF st.go
    THEN /\ life' = [f EXCEPT !.pc = "t_clients", !.req = st.req]
         /\ lastLife' = "connected"
         /\ UNCHANGED <<session, controller, closed>>
    ELSE DisconnectBody([f EXCEPT !.ret = TestFail(st.ret.error), !.ev = "disconnected"],
                        "connected")

\* the probe or login of connect() is answered (lines 82-107), for a plain
\* connect() and for the connect() inside test_connection (lines 413-418)
ConnectReply ==
    /\ life.pc = "c_await"
    /\ \E r \in (IF is_unifi_os THEN ProbeReplies ELSE LoginReplies) :
         LET f == [life EXCEPT !.replies = Append(@, r), !.req = NoReq] IN
         IF ConnectSucceeds(r)
         THEN IF life.op = "connect"
              THEN /\ life' = [f EXCEPT !.pc = "done", !.ret = BoolRet(TRUE)]
                   /\ lastLife' = "connected"
                   /\ UNCHANGED <<session, controller, closed>>
              ELSE TestAfterConnect(f)
         ELSE IF life.op = "connect"
              THEN DisconnectBody([f EXCEPT !.ret = BoolRet(FALSE), !.ev = "connect_failed"],
                                  "connecting")
              ELSE DisconnectBody([f EXCEPT !.ret = TestFail(ConnectFailedMsg),
                                            !.ev = "disconnected"], "connecting")
    /\ UNCHANGED <<appVars, api_key, site, opened, sessHdr, registry, work>>

\* test_connection: get_clients is answered, then get_access_points runs up to
\* its await (lines 421-422), or the except / finally path (lines 431-438)
TestClientsReply ==
    /\ life.pc = "t_clients"
    /\ \E r \in ClientsReplySet :
         LET f == [life EXCEPT !.replies = Append(@, r), !.req = NoReq]
             res == GetClientsEnd(r)
             st == GetAccessPointsStart
         IN  IF res.kind = "raised"
             THEN DisconnectBody([f EXCEPT !.ret = TestFail(res.error), !.ev = "disconnected"],
                                 lastLife)
             ELSE IF st.go
             THEN /\ life' = [f EXCEPT !.pc = "t_aps", !.req = st.req,
                                       !.nc = Cardinality(DOMAIN res.val)]
                  /\ UNCHANGED <<session, controller, closed, lastLife>>
             ELSE DisconnectBody([f EXCEPT !.ret = TestFail(st.ret.error),
                                           !.ev = "disconnected"], lastLife)
    /\ UNCHANGED <<appVars, api_key, site, opened, sessHdr, registry, work>>

\* test_connection: get_access_points is answered, the result is built and the
\* finally clause disconnects (lines 422-438)
TestApsReply ==
    /\ life.pc = "t_aps"
    /\ \E r \in DevicesReplySet :
         LET f == [life EXCEPT !.replies = Append(@, r), !.req = NoReq]
             res == GetAccessPointsEnd(r)
         IN  IF res.kind = "raised"
             THEN DisconnectBody([f EXCEPT !.ret = TestFail(res.error), !.ev = "disconnected"],
                                 lastLife)
             ELSE DisconnectBody([f EXCEPT !.ret = TestOk(f.nc, Cardinality(DOMAIN res.val), site),
                                           !.ev = "disconnected"], lastLife)
    /\ UNCHANGED <<appVars, api_key, site, opened, sessHdr, registry, work>>

\* the lifecycle caller takes the returned value and is free to call again
LifeReturn ==
    /\ life.pc = "done"
    /\ life' = IdleLife
    /\ UNCHANGED <<appVars, api_key, site, session, controller, opened, closed, sessHdr, lastLife, registry, work>>

\* ---------------------------------------------------------------- workers
Names == {"tv"}

WorkerOps ==
    {"get_clients", "get_access_points", "get_client_by_mac", "get_ap_name_by_mac",
     "block_client", "unblock_client", "set_client_name"}

\* no reply received yet
NoReply == [kind |-> "none"]

\* a worker's frame: the call and its arguments, the request in flight, the number
\* of requests sent, the reply its first request received, the method of its
\* second request, the value returned
IdleWork ==
    [op |-> "none", pc |-> "idle", mac |-> <<>>, name |-> "", req |-> NoReq, nreq |-> 0,
     reply |-> NoReply, wrote |-> "none", wreply |-> NoReply, ret |-> NoRet]

User(id, mac, name) == [id |-> id, mac |-> mac, name |-> name]

UserBodies ==
    { Json(Str(<<>>)),
      Json(Str(<<User("u1", Str(<<"A", ":", "B">>), "old")>>)),
      Json(Str(<<User("u1", Str(MacBA), "old"), User("u2", Str(MacAB), "old")>>)),
      Json(Str(<<User("u1", Null, "old")>>)),
      NotJson }

UserReplies == {HttpReply(200, b) : b \in UserBodies} \cup {HttpReply(401, NotJson), NetError}
WriteReplies == {HttpReply(st, NotJson) : st \in Statuses} \cup {NetError}

\* mutant: the legacy url whatever the credential
ControlBase_AlwaysLegacy == LegacyBase

\* the url of a control operation: lines 292-295, 328-331, 365-368
ControlBase == IF is_unifi_os THEN ProxyBase ELSE LegacyBase

\* self._session.<method>(url, json=payload) inside the try block of a control
\* operation: an exception makes the operation return False
SessionSend(method, ep, payload) ==
    IF session = 0 \/ session \in closed THEN Stay(BoolRet(FALSE))
    ELSE Go([Req(method, ControlBase, ep, session, sessHdr[session]) EXCEPT !.body = payload])

\* mutant: no not-connected guard, the failure is swallowed by the try block
StationCommandStart_NoGuard(cmd, mac) ==
    SessionSend("POST", "cmd/stamgr", [cmd |-> cmd, mac |-> Lower(mac)])

\* block_client / unblock_client up to the await of the POST (lines 288-302, 324-338)
StationCommandStart(cmd, mac) ==
    IF session = 0 THEN Stay(Raised(NotConnectedMsg))
    ELSE SessionSend("POST", "cmd/stamgr", [cmd |-> cmd, mac |-> Lower(mac)])

\* block_client / unblock_client once the POST is answered (lines 302-312, 338-348)
\* mutant: any answered POST counts as success
StationCommandEnd_AnyStatus(r) == BoolRet(r.kind = "http")

StationCommandEnd(r) == BoolRet(r.kind = "http" /\ r.status = 200)

\* set_client_name up to the await of the registry GET (lines 361-371)
SetClientNameStart ==
    IF session = 0 THEN Stay(Raised(NotConnectedMsg))
    ELSE SessionSend("GET", "rest/user", Absent)

\* mutant: only the first registry entry is compared
FindUser_FirstOnly(users, i, mac) ==
    IF Len(users) = 0 THEN 0
    ELSE LET m == Get(users[1].mac, Str(<<>>)) IN
         IF m.k # "str" THEN -1
         ELSE IF Lower(m.s) = Lower(mac) THEN 1
         ELSE 0

\* next((u for u in users if u.get('mac', '').lower() == mac_address.lower()), None):
\* the index of the first match, 0 for None, -1 when a null mac raises first
RECURSIVE FindUser(_, _, _)
FindUser(users, i, mac) ==
    IF i > Len(users) THEN 0
    ELSE LET m == Get(users[i].mac, Str(<<>>)) IN
         IF m.k # "str" THEN -1
         ELSE IF Lower(m.s) = Lower(mac) THEN i
         ELSE FindUser(users, i + 1, mac)

\* mutant: a transport error of the registry GET is raised to the caller
SetClientNameWrite_RaisesOnError(r, mac, name) ==
    IF r.kind = "exc" THEN Stay(Raised(TransportMsg))
    ELSE IF r.status # 200 THEN Stay(BoolRet(FALSE))
    ELSE IF ~r.body.json THEN Stay(BoolRet(FALSE))
    ELSE LET users == Get(r.body.data, Str(<<>>)).s
             i == FindUser(users, 1, mac)
         IN  IF i = -1 THEN Stay(BoolRet(FALSE))
             ELSE IF i > 0
             THEN SessionSend("PUT", <<"rest/user", users[i].id>>, [name |-> name])
             ELSE SessionSend("POST", "rest/user", [mac |-> Lower(mac), name |-> name])

\* mutant: a body that cannot be read counts as an empty registry
SetClientNameWrite_PostOnBadBody(r, mac, name) ==
    IF r.kind = "exc" THEN Stay(BoolRet(FALSE))
    ELSE IF r.status # 200 THEN Stay(BoolRet(FALSE))
    ELSE IF ~r.body.json
    THEN SessionSend("POST", "rest/user", [mac |-> Lower(mac), name |-> name])
    ELSE LET users == Get(r.body.data, Str(<<>>)).s
             i == FindUser(users, 1, mac)
         IN  IF i = -1 THEN Stay(BoolRet(FALSE))
             ELSE IF i > 0
             THEN SessionSend("PUT", <<"rest/user", users[i].id>>, [name |-> name])
             ELSE SessionSend("POST", "rest/user", [mac |-> Lower(mac), name |-> name])

\* set_client_name once the registry GET is answered (lines 371-403): the write
\* it sends next, or the value it returns without writing
SetClientNameWrite(r, mac, name) ==
    IF r.kind = "exc" THEN Stay(BoolRet(FALSE))
    ELSE IF r.status # 200 THEN Stay(BoolRet(FALSE))
    ELSE IF ~r.body.json THEN Stay(BoolRet(FALSE))
    ELSE LET users == Get(r.body.data, Str(<<>>)).s
             i == FindUser(users, 1, mac)
         IN  IF i = -1 THEN Stay(BoolRet(FALSE))
             ELSE IF i > 0
             THEN SessionSend("PUT", <<"rest/user", users[i].id>>, [name |-> name])
             ELSE SessionSend("POST", "rest/user", [mac |-> Lower(mac), name |-> name])

\* mutant: any answered write counts as success
SetClientNameEnd_AnyStatus(r) == BoolRet(r.kind = "http")

\* set_client_name once its PUT or POST is answered (lines 383-399, 401-403)
SetClientNameEnd(r) == BoolRet(r.kind = "http" /\ r.status = 200)

\* mutant: the key is only lowercased
GetClientByMacEnd_LowerOnly(res, mac) ==
    IF res.kind = "raised" THEN res
    ELSE IF Lower(mac) \in DOMAIN res.val
    THEN ValRet(res.val[Lower(mac)])
    ELSE NoneRet

\* get_client_by_mac after get_clients returned (lines 196-199)
GetClientByMacEnd(res, mac) ==
    IF res.kind = "raised" THEN res
    ELSE IF NormalizeMac(mac) \in DOMAIN res.val
    THEN ValRet(res.val[NormalizeMac(mac)])
    ELSE NoneRet

\* mutant: the model is preferred to the name
ApLabel_ModelFirst(ap, normalized) ==
    IF is_unifi_os
    THEN IF ap.model.k = "str" /\ ap.model.s # "" THEN ap.model.s
         ELSE IF ap.name.k = "str" /\ ap.name.s # "" THEN ap.name.s
         ELSE normalized
    ELSE IF ap.model # "" THEN ap.model
         ELSE IF ap.name # "" THEN ap.name
         ELSE normalized

\* ap.get('name') or ap.get('model') or normalized_mac (dict, line 270), and
\* ap.name or ap.model or normalized_mac (aiounifi object, line 272)
ApLabel(ap, normalized) ==
    IF is_unifi_os
    THEN IF ap.name.k = "str" /\ ap.name.s # "" THEN ap.name.s
         ELSE IF ap.model.k = "str" /\ ap.model.s # "" THEN ap.model.s
         ELSE normalized
    ELSE IF ap.name # "" THEN ap.name
         ELSE IF ap.model # "" THEN ap.model
         ELSE normalized

\* get_ap_name_by_mac after get_access_points returned or raised (lines 263-276)
GetApNameByMacEnd(res, ap_mac) ==
    IF res.kind = "raised" THEN ValRet(ap_mac)
    ELSE IF NormalizeMac(ap_mac) \in DOMAIN res.val
    THEN ValRet(ApLabel(res.val[NormalizeMac(ap_mac)], NormalizeMac(ap_mac)))
    ELSE ValRet(NormalizeMac(ap_mac))

\* an operation up to its first await
StartOf(op, mac) ==
    CASE op = "get_clients" -> GetClientsStart
      [] op = "get_client_by_mac" -> GetClientsStart
      [] op = "get_access_points" -> GetAccessPointsStart
      [] op = "get_ap_name_by_mac" ->
            LET st == GetAccessPointsStart IN
            IF st.go THEN st ELSE Stay(GetApNameByMacEnd(st.ret, mac))
      [] op = "block_client" -> StationCommandStart("block-sta", mac)
      [] op = "unblock_client" -> StationCommandStart("unblock-sta", mac)
      [] op = "set_client_name" -> SetClientNameStart

\* the replies the awaited request of an operation can get
RepliesOf(op) ==
    CASE op \in {"get_clients", "get_client_by_mac"} -> ClientsReplySet
      [] op \in {"get_access_points", "get_ap_name_by_mac"} -> DevicesReplySet
      [] op \in {"block_client", "unblock_client"} -> WriteReplies
      [] op = "set_client_name" -> UserReplies

\* an operation after the reply to its first request
AfterReply(op, r, mac, name) ==
    CASE op = "get_clients" -> Stay(GetClientsEnd(r))
      [] op = "get_client_by_mac" -> Stay(GetClientByMacEnd(GetClientsEnd(r), mac))
      [] op = "get_access_points" -> Stay(GetAccessPointsEnd(r))
      [] op = "get_ap_name_by_mac" -> Stay(GetApNameByMacEnd(GetAccessPointsEnd(r), mac))
      [] op \in {"block_client", "unblock_client"} -> Stay(StationCommandEnd(r))
      [] op = "set_client_name" -> SetClientNameWrite(r, mac, name)

\* worker w calls an operation and runs it up to its first await
Invoke(w) ==
    /\ work[w].pc = "idle"
    /\ \E op \in WorkerOps :
       \E mac \in (IF op \in {"get_clients", "get_access_points"} THEN {<<>>} ELSE MacInputs) :
       \E name \in (IF op = "set_client_name" THEN Names ELSE {""}) :
         LET st == StartOf(op, mac)
             f == [IdleWork EXCEPT !.op = op, !.mac = mac, !.name = name]
         IN  work' = [work EXCEPT ![w] =
                 IF st.go THEN [f EXCEPT !.pc = "await", !.req = st.req, !.nreq = 1]
                 ELSE [f EXCEPT !.pc = "done", !.ret = st.ret]]
    /\ UNCHANGED <<appVars, api_key, site, session, controller, opened, closed, sessHdr, lastLife,
                   registry, life>>

\* mutant: an operation that raises drops the session
Reply_DropsSessionOnError(w) ==
    /\ work[w].pc = "await"
    /\ \E r \in RepliesOf(work[w].op) :
         LET st == AfterReply(work[w].op, r, work[w].mac, work[w].name) IN
         /\ work' = [work EXCEPT ![w] =
                IF st.go THEN [@ EXCEPT !.pc = "write", !.req = st.req, !.nreq = @ + 1,
                                        !.reply = r, !.wrote = st.req.method]
                ELSE [@ EXCEPT !.pc = "done", !.req = NoReq, !.reply = r, !.ret = st.ret]]
         /\ session' = IF st.ret.kind = "raised" THEN 0 ELSE session
    /\ UNCHANGED <<appVars, api_key, site, controller, opened, closed, sessHdr, lastLife,
                   registry, life>>

\* the first request of worker w's operation is answered
Reply(w) ==
    /\ work[w].pc = "await"
    /\ \E r \in RepliesOf(work[w].op) :
         LET st == AfterReply(work[w].op, r, work[w].mac, work[w].name) IN
         work' = [work EXCEPT ![w] =
             IF st.go THEN [@ EXCEPT !.pc = "write", !.req = st.req, !.nreq = @ + 1,
                                     !.reply = r, !.wrote = st.req.method]
             ELSE [@ EXCEPT !.pc = "done", !.req = NoReq, !.reply = r, !.ret = st.ret]]
    /\ UNCHANGED <<appVars, api_key, site, session, controller, opened, closed, sessHdr, lastLife,
                   registry, life>>

\* the PUT or POST of set_client_name is answered
WriteReply(w) ==
    /\ work[w].pc = "write"
    /\ \E r \in WriteReplies :
         work' = [work EXCEPT ![w] =
             [@ EXCEPT !.pc = "done", !.req = NoReq, !.wreply = r, !.ret = SetClientNameEnd(r)]]
    /\ UNCHANGED <<appVars, api_key, site, session, controller, opened, closed, sessHdr, lastLife,
                   registry, life>>

\* worker w takes the returned value (or the exception) and is free to call again
WorkReturn(w) ==
    /\ work[w].pc = "done"
    /\ work' = [work EXCEPT ![w] = IdleWork]
    /\ UNCHANGED <<appVars, api_key, site, session, controller, opened, closed, sessHdr, lastLife,
                   registry, life>>

\* ----------------------------------------------------------- specification
\* the state after UniFiClient(host, ..., api_key, site) (lines 40-48)
Init ==
    /\ AppIdle
    /\ api_key \in ApiKeys
    /\ site \in Sites
    /\ session = 0
    /\ controller = 0
    /\ opened = 0
    /\ closed = {}
    /\ sessHdr = <<>>
    /\ lastLife = "constructed"
    /\ registry = <<>>
    /\ life = IdleLife
    /\ work = [w \in Workers |-> IdleWork]

Next ==
    \/ Connect
    \/ ConnectReply
    \/ Disconnect
    \/ DisconnectClear
    \/ TestConnection
    \/ TestClientsReply
    \/ TestApsReply
    \/ LifeReturn
    \/ \E w \in Workers : Invoke(w)
    \/ \E w \in Workers : Reply(w)
    \/ \E w \in Workers : WriteReply(w)
    \/ \E w \in Workers : WorkReturn(w)

Spec == Init /\ [][Next]_vars

\* ------------------------------------------- the user registry, server side
\* The controller keeps the rest/user registry: a GET returns its entries, a
\* POST appends an entry under a fresh _id with the mac and name of the payload
\* as sent (the controller is not assumed to enforce uniqueness), a PUT to
\* rest/user/{_id} renames that entry.  A write that gets a transport error may
\* or may not have been applied.
MaxUsers == 2

RegNames == {"tv", "pc"}

RegMacs == {MacAB, <<"A", ":", "B">>, <<"A", "-", "B">>}

RegGetReplies == {HttpReply(200, Json(Str(registry))), HttpReply(401, NotJson), NetError}

RegApply(q) ==
    IF q.method = "POST"
    THEN Append(registry, User(Len(registry) + 1, Str(q.body.mac), q.body.name))
    ELSE [i \in DOMAIN registry |->
            IF registry[i].id = q.ep[2]
            THEN [registry[i] EXCEPT !.name = q.body.name]
            ELSE registry[i]]

\* worker w calls set_client_name(mac, name) and runs it up to the registry GET
RegInvoke(w) ==
    /\ work[w].pc = "idle"
    /\ \E mac \in RegMacs, name \in RegNames :
         LET st == SetClientNameStart
             f == [IdleWork EXCEPT !.op = "set_client_name", !.mac = mac, !.name = name]
         IN  work' = [work EXCEPT ![w] =
                 IF st.go THEN [f EXCEPT !.pc = "await", !.req = st.req, !.nreq = 1]
                 ELSE [f EXCEPT !.pc = "done", !.ret = st.ret]]
    /\ UNCHANGED <<appVars, api_key, site, session, controller, opened, closed, sessHdr, lastLife,
                   registry, life>>

\* the registry GET of worker w is answered from the registry as it is now
RegReply(w) ==
    /\ work[w].pc = "await"
    /\ \E r \in RegGetReplies :
         LET st == SetClientNameWrite(r, work[w].mac, work[w].name) IN
         work' = [work EXCEPT ![w] =
             IF st.go THEN [@ EXCEPT !.pc = "write", !.req = st.req, !.nreq = @ + 1,
                                     !.reply = r, !.wrote = st.req.method]
             ELSE [@ EXCEPT !.pc = "done", !.req = NoReq, !.reply = r, !.ret = st.ret]]
    /\ UNCHANGED <<appVars, api_key, site, session, controller, opened, closed, sessHdr, lastLife,
                   registry, life>>

\* the PUT or POST of worker w reaches the controller (or is lost) and is answered
RegWriteReply(w) ==
    /\ work[w].pc = "write"
    /\ \E r \in WriteReplies, applied \in BOOLEAN :
         /\ r.kind = "http" => (applied <=> r.status = 200)
         /\ (applied /\ work[w].req.method = "POST") => Len(registry) < MaxUsers
         /\ registry' = IF applied THEN RegApply(work[w].req) ELSE registry
         /\ work' = [work EXCEPT ![w] =
                [@ EXCEPT !.pc = "done", !.req = NoReq, !.wreply = r, !.ret = SetClientNameEnd(r)]]
    /\ UNCHANGED <<appVars, api_key, site, session, controller, opened, closed, sessHdr, lastLife,
                   life>>

\* the instance after a connect() that returned True, the registry empty
RegConnected ==
    /\ AppIdle
    /\ api_key \in {NoKey, "k1"}
    /\ site = "default"
    /\ session = 1
    /\ controller = (IF is_unifi_os THEN 0 ELSE 1)
    /\ opened = 1
    /\ closed = {}
    /\ sessHdr = <<SessionHeaders>>
    /\ lastLife = "connected"
    /\ registry = <<>>
    /\ life = IdleLife

\* one caller: its set_client_name calls never overlap
SeqInit == RegConnected /\ work = [w \in {"w1"} |-> IdleWork]

\* two callers: their set_client_name calls may overlap
RaceInit == RegConnected /\ work = [w \in {"w1", "w2"} |-> IdleWork]

RegNext ==
    \/ \E w \in DOMAIN work : RegInvoke(w)
    \/ \E w \in DOMAIN work : RegReply(w)
    \/ \E w \in DOMAIN work : RegWriteReply(w)
    \/ \E w \in DOMAIN work : WorkReturn(w)

SpecSeq == SeqInit /\ [][RegNext]_vars

SpecRace == RaceInit /\ [][RegNext]_vars

\* ------------------------------------------------- MAC normalization alone
\* The normalization of get_client_by_mac / get_ap_name_by_mac applied to every
\* string of at most MaxMacLen characters, and applied again to its own result.
MaxMacLen == 3

MacChars == {"a", "A", "b", "B", "1", ":", "-", "."}

MacStrings == UNION {[1..n -> MacChars] : n \in 0..MaxMacLen}

\* normalized_mac = mac.lower().replace("-", ":").replace(".", ":") on the argument
NormalizeOnce(w) ==
    /\ work[w].pc = "idle"
    /\ work' = [work EXCEPT ![w] = [@ EXCEPT !.op = "normalize", !.pc = "done",
                                              !.ret = ValRet(NormalizeMac(work[w].mac))]]
    /\ UNCHANGED <<appVars, api_key, site, session, controller, opened, closed, sessHdr, lastLife,
                   registry, life>>

\* the same expression on a string that is already a result of it
NormalizeAgain(w) ==
    /\ work[w].pc = "done"
    /\ work' = [work EXCEPT ![w] = [@ EXCEPT !.mac = work[w].ret.val,
                                              !.ret = ValRet(NormalizeMac(work[w].ret.val))]]
    /\ UNCHANGED <<appVars, api_key, site, session, controller, opened, closed, sessHdr, lastLife,
                   registry, life>>

MacInit ==
    /\ AppIdle
    /\ api_key = NoKey
    /\ site = "default"
    /\ session = 0
    /\ controller = 0
    /\ opened = 0
    /\ closed = {}
    /\ sessHdr = <<>>
    /\ lastLife = "constructed"
    /\ registry = <<>>
    /\ life = IdleLife
    /\ \E m \in MacStrings : work = [w \in {"w1"} |-> [IdleWork EXCEPT !.mac = m]]

MacNext ==
    \/ \E w \in DOMAIN work : NormalizeOnce(w)
    \/ \E w \in DOMAIN work : NormalizeAgain(w)

SpecMac == MacInit /\ [][MacNext]_vars

\* ------------------------------------------------- the enumerations alone
\* get_clients and get_access_points of a connected API-key instance, answered
\* 200 with every list of at most MaxRecords raw records, and get_clients
\* answered with one record carrying every rate up to MaxRate Kbps.
MaxRecords == 2

MaxRate == 500

EnumMacs ==
    {Absent, Null, Str(<<>>), Str(MacAB), Str(<<"A", ":", "B">>), Str(<<"A", "-", "B">>),
     Str(MacBA)}

EnumClients == {RawClient(m, tx, Null) : m \in EnumMacs, tx \in {Absent, Num(54000)}}

EnumDevices ==
    {RawDevice(m, t, n, Str("U6-Pro")) :
        m \in EnumMacs, t \in {Str("uap"), Str("usw"), Absent}, n \in {Str("Lobby-AP"), Absent}}

RateInputs == {Absent, Null} \cup {Num(n) : n \in 0..MaxRate}

Lists(S) == UNION {[1..n -> S] : n \in 0..MaxRecords}

EnumClientReplies ==
    {HttpReply(200, Json(Str(l))) : l \in Lists(EnumClients)}
    \cup {HttpReply(200, Json(Str(<<RawClient(Str(MacAB), tx, rx)>>))) :
            tx \in RateInputs, rx \in {Absent, Num(1250)}}
    \cup {HttpReply(200, Json(Str(<<RawClient(Str(MacAB), Null, rx)>>))) : rx \in RateInputs}

EnumDeviceReplies == {HttpReply(200, Json(Str(l))) : l \in Lists(EnumDevices)}

\* worker w calls get_clients() or get_access_points() and sends the GET
EnumInvoke(w) ==
    /\ work[w].pc = "idle"
    /\ \E op \in {"get_clients", "get_access_points"} :
         LET st == StartOf(op, <<>>)
             f == [IdleWork EXCEPT !.op = op]
         IN  work' = [work EXCEPT ![w] =
                 IF st.go THEN [f EXCEPT !.pc = "await", !.req = st.req, !.nreq = 1]
                 ELSE [f EXCEPT !.pc = "done", !.ret = st.ret]]
    /\ UNCHANGED <<appVars, api_key, site, session, controller, opened, closed, sessHdr, lastLife,
                   registry, life>>

\* the GET is answered 200 with a list of raw records
EnumReply(w) ==
    /\ work[w].pc = "await"
    /\ \E r \in (IF work[w].op = "get_clients" THEN EnumClientReplies
                                                ELSE EnumDeviceReplies) :
         LET st == AfterReply(work[w].op, r, work[w].mac, work[w].name) IN
         work' = [work EXCEPT ![w] =
             [@ EXCEPT !.pc = "done", !.req = NoReq, !.reply = r, !.ret = st.ret]]
    /\ UNCHANGED <<appVars, api_key, site, session, controller, opened, closed, sessHdr, lastLife,
                   registry, life>>

\* the instance after a connect() with an API key returned True
EnumInit ==
    /\ AppIdle
    /\ api_key = "k1"
    /\ site = "default"
    /\ session = 1
    /\ controller = 0
    /\ opened = 1
    /\ closed = {}
    /\ sessHdr = <<SessionHeaders>>
    /\ lastLife = "connected"
    /\ registry = <<>>
    /\ life = IdleLife
    /\ work = [w \in {"w1"} |-> IdleWork]

EnumNext ==
    \/ \E w \in DOMAIN work : EnumInvoke(w)
    \/ \E w \in DOMAIN work : EnumReply(w)
    \/ \E w \in DOMAIN work : WorkReturn(w)

SpecEnum == EnumInit /\ [][EnumNext]_vars

\* ------------------------------------------------ cancellation of connect
CancelledMsg == "CancelledError"

\* mutant: the cancellation is handled like a failure (the session is closed
\* and cleared before the cancellation propagates)
CancelConnect_Cleans ==
    /\ life.op = "connect" /\ life.pc = "c_await"
    /\ closed' = closed \cup {session}
    /\ session' = 0
    /\ controller' = 0
    /\ life' = [life EXCEPT !.pc = "done", !.req = NoReq, !.ret = Raised(CancelledMsg)]
    /\ lastLife' = "cancelled"
    /\ UNCHANGED <<appVars, api_key, site, opened, sessHdr, registry, work>>

\* the task running connect() is cancelled while the probe GET (line 81) or
\* controller.login() (line 100) is awaited: CancelledError is not an Exception,
\* so the handler of lines 104-107 does not run and the call ends raising it
CancelConnect ==
    /\ life.op = "connect" /\ life.pc = "c_await"
    /\ life' = [life EXCEPT !.pc = "done", !.req = NoReq, !.ret = Raised(CancelledMsg)]
    /\ lastLife' = "cancelled"
    /\ UNCHANGED <<appVars, api_key, site, session, controller, opened, closed, sessHdr, registry,
                   work>>

CancelNext ==
    \/ Connect
    \/ ConnectReply
    \/ CancelConnect
    \/ Disconnect
    \/ DisconnectClear
    \/ LifeReturn

SpecCancel == Init /\ [][CancelNext]_vars

\* ------------------------------------------- login rate limiting alone
\* Calls of check_rate_limit and record_login_attempt for two addresses while
\* the clock advances, up to MaxClock seconds and MaxAttempts stored attempts.
MaxClock == 450

MaxAttempts == 6

Elapsed == {150, 300}

\* the number of attempts stored, all addresses together
Stored == Len(login_attempts["ip1"]) + Len(login_attempts["ip2"])

CheckLimit ==
    /\ \E ip \in Ips : limit' = CheckRateLimit(ip)
    /\ UNCHANGED <<clientVars, utcnow, login_attempts, sessionVars, cacheVars, cryptoVars, intelVars>>

RecordAttempt ==
    /\ \E ip \in Ips, success \in BOOLEAN :
         /\ Stored < MaxAttempts
         /\ login_attempts' = [login_attempts EXCEPT ![ip] = RecordLoginAttempt(ip, success)]
    /\ limit' = NoCheck
    /\ UNCHANGED <<clientVars, utcnow, sessionVars, cacheVars, cryptoVars, intelVars>>

\* time passes between two calls
Advance ==
    /\ \E d \in Elapsed : utcnow + d <= MaxClock /\ utcnow' = utcnow + d
    /\ limit' = NoCheck
    /\ UNCHANGED <<clientVars, login_attempts, sessionVars, cacheVars, cryptoVars, intelVars>>

\* a client instance as constructed, which nobody uses
ClientIdle ==
    /\ api_key = NoKey
    /\ site = "default"
    /\ session = 0
    /\ controller = 0
    /\ opened = 0
    /\ closed = {}
    /\ sessHdr = <<>>
    /\ lastLife = "constructed"
    /\ registry = <<>>
    /\ life = IdleLife
    /\ work = [w \in Workers |-> IdleWork]

AuthInit == AppIdle /\ ClientIdle

AuthNext ==
    \/ CheckLimit
    \/ RecordAttempt
    \/ Advance

SpecAuth == AuthInit /\ [][AuthNext]_vars

\* ------------------------------------------------- web sessions alone
\* Calls of create_session and verify_session while the clock advances, up to
\* MaxTokens sessions created and MaxHalfWeeks half-weeks on the clock.
MaxTokens == 3

MaxHalfWeeks == 4

HalfWeek == 302400

IssueSession ==
    /\ Len(issued) < MaxTokens
    /\ \E username \in Usernames :
         LET c == CreateSession(username) IN
         /\ sessions' = c.sessions
         /\ issued' = Append(issued, c.sessions[c.token])
    /\ verified' = NoVerify
    /\ UNCHANGED <<clientVars, utcnow, authVars, cacheVars, cryptoVars, intelVars>>

CheckSession ==
    /\ \E token \in {InvalidToken} \cup (1 .. MaxTokens) :
         LET v == VerifySession(token) IN
         /\ sessions' = v.sessions
         /\ verified' = [kind |-> "verify", token |-> token, result |-> v.result]
    /\ UNCHANGED <<clientVars, utcnow, issued, authVars, cacheVars, cryptoVars, intelVars>>

\* time passes between two calls
SessionClock ==
    /\ utcnow + HalfWeek <= MaxHalfWeeks * HalfWeek
    /\ utcnow' = utcnow + HalfWeek
    /\ verified' = NoVerify
    /\ UNCHANGED <<clientVars, sessions, issued, authVars, cacheVars, cryptoVars, intelVars>>

SessionNext ==
    \/ IssueSession
    \/ CheckSession
    \/ SessionClock

SpecSession == AuthInit /\ [][SessionNext]_vars

\* ---------------------------------------------------- TTL cache alone
\* Calls of the cache functions while the clock advances: up to MaxCacheOps
\* writes and invalidations, MaxTicks clock steps of two thirds of a TTL.
MaxCacheOps == 3

MaxTicks == 2

Tick == 20

CacheData == {[has_gateway |-> FALSE], [has_gateway |-> TRUE, gateway_model |-> "UDM"]}

Called(kind, key, result) == [kind |-> kind, key |-> key, result |-> result]

Write(kind, key, data) == [kind |-> kind, key |-> key, data |-> data, at |-> utcnow]

CacheGet ==
    /\ \E key \in CacheKeys :
         got' = Called("get", key, ReadEntry(cache, key, utcnow))
    /\ UNCHANGED <<clientVars, utcnow, cache, calls, authVars, sessionVars, cryptoVars, intelVars>>

CacheSet ==
    /\ Len(calls) < MaxCacheOps
    /\ \E key \in CacheKeys, data \in CacheData :
         /\ cache' = SetEntry(key, data)
         /\ got' = Called("set", key, Null)
         /\ calls' = Append(calls, Write("set", key, data))
    /\ UNCHANGED <<clientVars, utcnow, authVars, sessionVars, cryptoVars, intelVars>>

CacheInvalidate ==
    /\ Len(calls) < MaxCacheOps
    /\ \E key \in CacheKeys \cup {"nonexistent_key"} :
         /\ cache' = Invalidate(key)
         /\ got' = Called("invalidate", key, Null)
         /\ calls' = Append(calls, Write("invalidate", key, Null))
    /\ UNCHANGED <<clientVars, utcnow, authVars, sessionVars, cryptoVars, intelVars>>

CacheInvalidateAll ==
    /\ Len(calls) < MaxCacheOps
    /\ cache' = InvalidateAll
    /\ got' = Called("invalidate_all", "", Null)
    /\ calls' = Append(calls, Write("invalidate_all", "", Null))
    /\ UNCHANGED <<clientVars, utcnow, authVars, sessionVars, cryptoVars, intelVars>>

\* time passes between two calls
CacheClock ==
    /\ utcnow + Tick <= MaxTicks * Tick
    /\ utcnow' = utcnow + Tick
    /\ got' = NoCall
    /\ UNCHANGED <<clientVars, cache, calls, authVars, sessionVars, cryptoVars, intelVars>>

CacheNext ==
    \/ CacheGet
    \/ CacheSet
    \/ CacheInvalidate
    \/ CacheInvalidateAll
    \/ CacheClock

SpecCache == AuthInit /\ [][CacheNext]_vars

\* ------------------------------------------- credential encryption alone
\* A caller encrypts a string of up to MaxStrLen code points and decrypts
\* what it got, or decrypts bytes that are no token of this program; the
\* configured key may change in between.
MaxStrLen == 2

\* "A", e with acute, a CJK ideograph, an emoji, a lone surrogate
CodePoints == {65, 233, 23494, 128274, 55296}

Strings == UNION {[1..n -> CodePoints] : n \in 0..MaxStrLen}

\* b"not", b"", and a token sealed elsewhere whose data is half a UTF-8 sequence
ForeignInputs ==
    {RawBytes(<<110, 111, 116>>), RawBytes(<<>>)}
        \cup {FernetEncrypt(k, <<195>>, 1) : k \in EncryptionKeys}

Ivs == {1, 2}

Aliases == {"password", "api_key"}

Encrypt ==
    /\ crypt.pc = "input"
    /\ crypt.given = "str"
    /\ \E iv \in Ivs :
         crypt' = [crypt EXCEPT !.pc = "encrypted",
                                !.enc = IF crypt.fn = "password"
                                        THEN EncryptPassword(crypt.input, iv)
                                        ELSE EncryptApiKey(crypt.input, iv),
                                !.ekey = encryption_key]
    /\ UNCHANGED <<clientVars, utcnow, encryption_key, authVars, sessionVars, cacheVars, intelVars>>

\* the caller hands what encrypt returned to decrypt
Decrypt ==
    /\ crypt.pc = "encrypted"
    /\ crypt.enc.kind = "value"
    /\ crypt' = [crypt EXCEPT !.pc = "decrypted",
                               !.out = IF crypt.fn = "password"
                                       THEN DecryptPassword(crypt.enc.val)
                                       ELSE DecryptApiKey(crypt.enc.val),
                               !.dkey = encryption_key]
    /\ UNCHANGED <<clientVars, utcnow, encryption_key, authVars, sessionVars, cacheVars, intelVars>>

\* the caller hands bytes from elsewhere to decrypt
DecryptForeign ==
    /\ crypt.pc = "input"
    /\ crypt.given = "bytes"
    /\ crypt' = [crypt EXCEPT !.pc = "decrypted",
                               !.out = IF crypt.fn = "password"
                                       THEN DecryptPassword(crypt.input)
                                       ELSE DecryptApiKey(crypt.input),
                               !.dkey = encryption_key]
    /\ UNCHANGED <<clientVars, utcnow, encryption_key, authVars, sessionVars, cacheVars, intelVars>>

\* the settings are reloaded with another key
Rekey ==
    /\ crypt.pc \in {"input", "encrypted"}
    /\ \E k \in EncryptionKeys \ {encryption_key} : encryption_key' = k
    /\ UNCHANGED <<clientVars, utcnow, crypt, authVars, sessionVars, cacheVars, intelVars>>

CryptoInput(fn, given, input) ==
    [pc |-> "input", fn |-> fn, given |-> given, input |-> input,
     enc |-> NoRet, out |-> NoRet, ekey |-> "", dkey |-> ""]

CryptoInit ==
    /\ ClientIdle
    /\ utcnow = 0
    /\ AuthIdle
    /\ SessionIdle
    /\ CacheIdle
    /\ IntelIdle
    /\ encryption_key \in EncryptionKeys
    /\ \E fn \in Aliases :
         \/ \E p \in Strings : crypt = CryptoInput(fn, "str", p)
         \/ \E b \in ForeignInputs : crypt = CryptoInput(fn, "bytes", b)

CryptoNext ==
    \/ Encrypt
    \/ Decrypt
    \/ DecryptForeign
    \/ Rekey

SpecCrypto == CryptoInit /\ [][CryptoNext]_vars

\* ---------------------------------------------- threat intelligence lookup
\* tools/threat_watch/routers/intel.py
HttpError(status) == [kind |-> "http_exception", status |-> status]

TypeErrorMsg == "TypeError"

\* ipaddress.ip_address(ip_str): is_private, is_reserved, is_loopback of the
\* address, or no address at all (ValueError)
NotAnAddress == [valid |-> FALSE]

Address(private, reserved, loopback) ==
    [valid |-> TRUE, is_private |-> private, is_reserved |-> reserved, is_loopback |-> loopback]

IpAddress(ip_str) ==
    CASE ip_str = "10.0.0.1" -> Address(TRUE, FALSE, FALSE)
      [] ip_str = "127.0.0.1" -> Address(TRUE, FALSE, TRUE)
      [] ip_str = "240.0.0.1" -> Address(TRUE, TRUE, FALSE)
      [] ip_str = "8.8.8.8" -> Address(FALSE, FALSE, FALSE)
      [] ip_str = "224.0.0.1" -> Address(FALSE, FALSE, FALSE)
      [] OTHER -> NotAnAddress

\* mutant: the score 80 is not yet critical
ClassifyRisk_Above80(score) ==
    IF score > 80 THEN <<"critical", "#ef4444">>
    ELSE IF score >= 50 THEN <<"high", "#f97316">>
    ELSE IF score >= 25 THEN <<"medium", "#f59e0b">>
    ELSE IF score > 0 THEN <<"low", "#00e1ff">>
    ELSE <<"clean", "#10b981">>

\* _classify_risk(score) -> (risk_level, risk_color)
ClassifyRisk(score) ==
    IF score >= 80 THEN <<"critical", "#ef4444">>
    ELSE IF score >= 50 THEN <<"high", "#f97316">>
    ELSE IF score >= 25 THEN <<"medium", "#f59e0b">>
    ELSE IF score > 0 THEN <<"low", "#00e1ff">>
    ELSE <<"clean", "#10b981">>

\* _is_private_ip(ip_str): False for a string that is no address
IsPrivateIp(ip_str) ==
    LET ip == IpAddress(ip_str) IN
    IF ip.valid
    THEN ip.is_private \/ ip.is_reserved \/ ip.is_loopback
    ELSE FALSE

ThreatIntelResponse(ip, score, is_public, risk, usage_type) ==
    [kind |-> "response", ip |-> ip, abuse_confidence_score |-> score, is_public |-> is_public,
     risk_level |-> risk[1], risk_color |-> risk[2], usage_type |-> usage_type]

\* session.get("https://api.abuseipdb.com/api/v2/check", ...)
AbuseReq(ip_address, key) ==
    [method |-> "GET", url |-> "https://api.abuseipdb.com/api/v2/check",
     ipAddress |-> ip_address, Key |-> key]

\* check_ip up to its request: 503 without a key, the canned answer for a
\* private address, otherwise the GET to AbuseIPDB
CheckIpStart(ip_address) ==
    IF abuseipdb_api_key = NoKey \/ abuseipdb_api_key = ""
    THEN Stay(HttpError(503))
    ELSE IF IsPrivateIp(ip_address)
         THEN Stay(ThreatIntelResponse(ip_address, 0, FALSE, <<"clean", "#10b981">>,
                                       Str("Private/Reserved")))
         ELSE Go(AbuseReq(ip_address, abuseipdb_api_key))

\* check_ip from the reply on: the status checks, then the response built
\* from the "data" object of the body
CheckIpEnd(ip_address, r) ==
    IF r.kind = "exc" THEN HttpError(502)
    ELSE IF r.status = 401 THEN HttpError(401)
    ELSE IF r.status = 429 THEN HttpError(429)
    ELSE IF r.status # 200 THEN HttpError(502)
    ELSE IF ~r.body.json THEN HttpError(502)
    ELSE LET data == r.body.data
             score == Get(data.abuseConfidenceScore, Num(0)) IN
         IF score.k # "num"
         THEN Raised(TypeErrorMsg)
         ELSE ThreatIntelResponse(ip_address, score.n, Get(data.isPublic, TRUE),
                                  ClassifyRisk(score.n), Get(data.usageType, Null))

\* One check_ip request at a time, for each configuration of the key;
\* AbuseIPDB answers with any score up to MaxScore, an error status or not
\* at all.
MaxScore == 100

IntelAddresses == {"10.0.0.1", "127.0.0.1", "240.0.0.1", "8.8.8.8", "224.0.0.1", "not-an-ip"}

IntelData(score) == [abuseConfidenceScore |-> score, isPublic |-> Absent, usageType |-> Absent]

IntelReplies ==
    {HttpReply(200, Json(IntelData(sc))) : sc \in {Absent, Null} \cup {Num(n) : n \in 0..MaxScore}}
        \cup {HttpReply(200, NotJson), HttpReply(401, NotJson), HttpReply(429, NotJson),
               HttpReply(500, NotJson), NetError}

CheckIp ==
    /\ lookup.pc = "idle"
    /\ \E ip_address \in IntelAddresses :
         LET st == CheckIpStart(ip_address) IN
         lookup' = [pc |-> IF st.go THEN "c_await" ELSE "done", ip_address |-> ip_address,
                    req |-> st.req, reply |-> NoReply, ret |-> st.ret]
    /\ UNCHANGED <<clientVars, utcnow, abuseipdb_api_key, authVars, sessionVars, cacheVars, cryptoVars>>

CheckIpReply ==
    /\ lookup.pc = "c_await"
    /\ \E r \in IntelReplies :
         lookup' = [lookup EXCEPT !.pc = "done", !.reply = r,
                                  !.ret = CheckIpEnd(lookup.ip_address, r)]
    /\ UNCHANGED <<clientVars, utcnow, abuseipdb_api_key, authVars, sessionVars, cacheVars, cryptoVars>>

CheckIpReturn ==
    /\ lookup.pc = "done"
    /\ lookup' = NoLookup
    /\ UNCHANGED <<clientVars, utcnow, abuseipdb_api_key, authVars, sessionVars, cacheVars, cryptoVars>>

IntelInit ==
    /\ ClientIdle
    /\ utcnow = 0
    /\ AuthIdle
    /\ SessionIdle
    /\ CacheIdle
    /\ CryptoIdle
    /\ abuseipdb_api_key \in ApiKeys
    /\ lookup = NoLookup

IntelNext ==
    \/ CheckIp
    \/ CheckIpReply
    \/ CheckIpReturn

SpecIntel == IntelInit /\ [][IntelNext]_vars

\* --------------------------------------- overlapping callers, no lifecycle
\* Two callers issue directory and control operations against a connected
\* instance, their calls overlapping freely; nobody calls connect or disconnect.
ConcNext ==
    \/ \E w \in DOMAIN work : Invoke(w)
    \/ \E w \in DOMAIN work : Reply(w)
    \/ \E w \in DOMAIN work : WriteReply(w)
    \/ \E w \in DOMAIN work : WorkReturn(w)

SpecConc == RaceInit /\ [][ConcNext]_vars

\* ------------------------------------------------------------ properties
\* the lifecycle state the history stands for
AtRest == {"constructed", "disconnected", "connect_failed"}

LifeState ==
    CASE lastLife \in AtRest -> "Disconnected"
      [] lastLife = "connecting" -> "Connecting"
      [] lastLife = "connected" -> "Connected"

Frames == {life} \cup {work[w] : w \in DOMAIN work}

GuardedOps ==
    {"get_clients", "get_access_points", "get_client_by_mac",
     "block_client", "unblock_client", "set_client_name"}

\* C1: whenever connect() returns False, the instance holds no session and no
\* controller, and the session that call had opened has been closed.
C1_FailedConnectReleases ==
    (life.op = "connect" /\ life.pc = "done" /\ life.ret = BoolRet(FALSE))
        => (session = 0 /\ controller = 0 /\ life.sid \in closed)

C1_Witness ==
    /\ life.op = "connect" /\ life.pc = "done" /\ life.ret = BoolRet(FALSE)
    /\ life.replies = <<NetError>>
    /\ life.sid \in closed

\* C2: when test_connection() has returned, on every exit path, the instance
\* is disconnected: _session is None and the session it opened is closed.
C2_TestConnectionDisconnects ==
    (life.op = "test_connection" /\ life.pc = "done")
        => (session = 0 /\ life.sid # 0 /\ life.sid \in closed)

\* the exit path through an exception in the middle of the enumeration
C2_Witness ==
    /\ life.op = "test_connection" /\ life.pc = "done"
    /\ Len(life.replies) = 3
    /\ life.ret.connected = FALSE
    /\ session = 0 /\ life.sid \in closed

\* C3: in every reachable state every session the instance has opened and not
\* yet closed is the one referenced by _session (no open session is orphaned).
C3_NoOrphanSession ==
    \A s \in 1..opened : s \notin closed => s = session

Allowed ==
    { <<"Disconnected", "Connecting">>, <<"Connecting", "Connected">>,
      <<"Connecting", "Disconnected">>, <<"Connected", "Disconnected">> }

\* C4: the lifecycle state only moves Disconnected -> Connecting -> Connected ->
\* Disconnected, or Connecting -> Disconnected; a Connected instance never
\* becomes Connecting or Connected again without passing through Disconnected.
C4_LifecycleOrder ==
    [][LifeState' # LifeState => <<LifeState, LifeState'>> \in Allowed]_vars

\* C5: an operation of the directory or of the control actions called while the
\* last lifecycle event is the construction, a disconnect() or a failed
\* connect() raises the not-connected error and issues no request.
C5_NotConnectedRaises ==
    [][\A w \in Workers :
         (work[w].pc = "idle" /\ work'[w].pc # "idle"
            /\ work'[w].op \in GuardedOps /\ lastLife \in AtRest)
         => (work'[w].pc = "done" /\ work'[w].ret = Raised(NotConnectedMsg)
               /\ work'[w].nreq = 0 /\ work'[w].req = NoReq)]_vars

C5_Witness ==
    \E w \in Workers :
        /\ work[w].op = "set_client_name" /\ work[w].pc = "done"
        /\ work[w].ret = Raised(NotConnectedMsg)
        /\ work[w].nreq = 0
        /\ lastLife = "connect_failed"

\* C6: an operation called by another caller while connect() is in flight
\* (session created, probe or login not yet answered) raises the not-connected
\* error and issues no request through the session.
C6_InFlightConnectRaises ==
    [][\A w \in Workers :
         (work[w].pc = "idle" /\ work'[w].pc # "idle"
            /\ work'[w].op \in GuardedOps /\ life.pc = "c_await")
         => (work'[w].ret = Raised(NotConnectedMsg) /\ work'[w].nreq = 0)]_vars

\* C7: disconnect() never raises and ends with _session and controller None;
\* called on a never-connected or already disconnected instance it changes
\* nothing, so a second disconnect() leaves the state of the first.
C7_DisconnectIdempotent ==
    [][/\ (life.pc = "idle" /\ life'.op = "disconnect")
            => /\ life'.ret = NoneRet
               /\ life'.pc = "done" => (session' = 0 /\ controller' = 0)
               /\ lastLife \in {"constructed", "disconnected"}
                    => (life'.pc = "done" /\ session' = session
                          /\ controller' = controller /\ closed' = closed)
       /\ (life.pc = "closing" /\ life.op = "disconnect" /\ life' # life)
            => (life'.pc = "done" /\ life'.ret = NoneRet
                  /\ session' = 0 /\ controller' = 0)]_vars

\* a disconnect() that returned after being called right after a disconnect()
C7_Witness ==
    /\ life.op = "disconnect" /\ life.pc = "done" /\ life.from = "disconnected"
    /\ opened > 0
    /\ session = 0 /\ controller = 0

\* C8: connect() returns a boolean and never raises; with an API key it sends
\* exactly one GET to stat/device and returns True iff the status is 200; with
\* username/password it returns True iff the login completes without error.
C8_ConnectReturnsBoolean ==
    /\ (life.op = "connect" /\ life.pc = "c_await" /\ is_unifi_os)
         => (life.req.method = "GET" /\ life.req.base = ProxyBase
               /\ life.req.ep = "stat/device" /\ life.nreq = 1)
    /\ (life.op = "connect" /\ life.pc \in {"closing", "done"})
         => /\ life.ret.kind = "bool"
            /\ life.nreq = 1
            /\ Len(life.replies) = 1
            /\ life.ret.val =
                 (IF is_unifi_os
                  THEN life.replies[1].kind = "http" /\ life.replies[1].status = 200
                  ELSE life.replies[1].ok)

C8_Witness ==
    /\ life.op = "connect" /\ life.pc = "done"
    /\ api_key = "k1"
    /\ life.replies = <<HttpReply(401, NotJson)>>
    /\ life.ret = BoolRet(FALSE)

\* whether the three awaited calls of a test_connection() all succeeded
AllStagesOk(f) ==
    /\ Len(f.replies) = 3
    /\ IF is_unifi_os
       THEN f.replies[1].kind = "http" /\ f.replies[1].status = 200
       ELSE f.replies[1].ok
    /\ GetClientsEnd(f.replies[2]).kind = "dict"
    /\ GetAccessPointsEnd(f.replies[3]).kind = "dict"

\* C9: test_connection() never raises and returns connected=True with
\* client_count, ap_count and the instance's site exactly when connect and both
\* enumerations succeeded, and connected=False with an error message otherwise.
C9_TestConnectionResult ==
    (life.op = "test_connection" /\ life.pc = "done")
        => /\ life.ret.kind = "result"
           /\ life.ret.connected = AllStagesOk(life)
           /\ life.ret.connected
                => /\ life.ret.client_count
                        = Cardinality(DOMAIN GetClientsEnd(life.replies[2]).val)
                   /\ life.ret.ap_count
                        = Cardinality(DOMAIN GetAccessPointsEnd(life.replies[3]).val)
                   /\ life.ret.site = site
           /\ ~life.ret.connected => DOMAIN life.ret = {"kind", "connected", "error"}

C9_Witness ==
    /\ life.op = "test_connection" /\ life.pc = "done"
    /\ site = "lab"
    /\ life.ret = TestOk(2, 1, "lab")

\* C10: with an API key every request goes to {host}/proxy/network/api/s/{site}/,
\* with username/password no request goes to a /proxy/network path: the client
\* sends to {host}/api/s/{site}/ or lets the aiounifi controller send.
C10_ProtocolByCredential ==
    \A f \in Frames :
        f.req # NoReq
        => IF api_key # NoKey
           THEN f.req.base = ProxyBase /\ f.req.site = site
           ELSE /\ f.req.base \in {LegacyBase, LibBase}
                /\ f.req.base = LegacyBase => f.req.site = site

C10_Witness ==
    \E w \in Workers :
        /\ api_key = "k1"
        /\ work[w].op = "block_client" /\ work[w].pc = "await"
        /\ work[w].req.method = "POST" /\ work[w].req.base = ProxyBase
        /\ work[w].req.ep = "cmd/stamgr" /\ work[w].req.site = site

\* C11: every request of an instance constructed with an api_key (is_unifi_os)
\* carries the X-API-KEY header equal to that api_key, and no request of an
\* instance constructed without one carries the header.
C11_ApiKeyHeader ==
    \A f \in Frames :
        f.req # NoReq
        => IF is_unifi_os THEN f.req.hdr = api_key ELSE f.req.hdr = NoKey

\* C12: the cmd/stamgr request of block_client(mac) / unblock_client(mac) has
\* cmd "block-sta" / "unblock-sta" and, as its mac, the lowercase
\* colon-separated form of the argument, whatever its case and separators.
C12_CanonicalPayload ==
    \A w \in DOMAIN work :
        (work[w].op \in {"block_client", "unblock_client"} /\ work[w].pc = "await")
        => /\ work[w].req.ep = "cmd/stamgr"
           /\ work[w].req.body.cmd
                = (IF work[w].op = "block_client" THEN "block-sta" ELSE "unblock-sta")
           /\ work[w].req.body.mac = NormalizeMac(work[w].mac)

\* the positions of the registry entries stored under mac m, compared as the
\* lookup compares (case-insensitively)
EntriesOf(reg, m) == {i \in DOMAIN reg : Lower(reg[i].mac.s) = Lower(m)}

\* C13: when set_client_name calls never overlap, a call for a MAC without a
\* registry entry sends a POST, which once answered 200 has added exactly one
\* entry; a call for a MAC that has an entry sends a PUT to that entry's
\* identifier; and the registry never holds two entries for one MAC.
C13_SequentialCreateOrUpdate ==
    [][\A w \in DOMAIN work :
        LET f == work[w]
            g == work'[w]
            found == EntriesOf(registry, f.mac)
        IN  /\ (f.pc = "await" /\ g.pc = "write")
                => IF found = {}
                   THEN g.req.method = "POST" /\ g.req.ep = "rest/user"
                   ELSE /\ g.req.method = "PUT"
                        /\ \E i \in found : g.req.ep = <<"rest/user", registry[i].id>>
            /\ (f.pc = "write" /\ f.req.method = "POST" /\ g.ret = BoolRet(TRUE))
                => /\ Len(registry') = Len(registry) + 1
                   /\ Cardinality(EntriesOf(registry', f.mac)) = 1
            /\ (f.pc = "write" /\ f.req.method = "PUT") => Len(registry') = Len(registry)
            /\ \A i, j \in DOMAIN registry' :
                   registry'[i].mac = registry'[j].mac => i = j
      ]_vars

C13_Witness ==
    \E w \in DOMAIN work :
        /\ DOMAIN work = {"w1"}
        /\ registry = <<User(1, Str(MacAB), "tv")>>
        /\ work[w].pc = "write" /\ work[w].mac = <<"A", ":", "B">> /\ work[w].name = "pc"
        /\ work[w].req.method = "PUT" /\ work[w].req.ep = <<"rest/user", 1>>

\* C14: set_client_name looks the entry up by the normalized argument: when
\* the registry holds the address in canonical form the call sends a PUT to that
\* entry whatever the case and separators of the argument, a POST carries the
\* canonical form, and no two entries ever stand for one address.
C14_LookupByNormalizedMac ==
    [][\A w \in DOMAIN work :
        LET f == work[w]
            g == work'[w]
            found == {i \in DOMAIN registry : registry[i].mac.s = NormalizeMac(f.mac)}
        IN  /\ (f.pc = "await" /\ g.pc = "write")
                => IF found = {}
                   THEN g.req.method = "POST" /\ g.req.body.mac = NormalizeMac(f.mac)
                   ELSE /\ g.req.method = "PUT"
                        /\ \E i \in found : g.req.ep = <<"rest/user", registry[i].id>>
            /\ \A i, j \in DOMAIN registry' :
                   NormalizeMac(registry'[i].mac.s) = NormalizeMac(registry'[j].mac.s)
                   => i = j
      ]_vars

\* C15: two overlapping set_client_name calls for one MAC that has no entry,
\* both past their registry GET, both send a POST; and once both POSTs are
\* answered 200 the registry holds two entries for that MAC.
C15_OverlapCreatesTwice ==
    \A w, v \in DOMAIN work :
        (w # v /\ Lower(work[w].mac) = Lower(work[v].mac))
        => /\ (/\ work[w].pc = "write" /\ work[v].pc = "write"
               /\ EntriesOf(registry, work[w].mac) = {})
              => (work[w].req.method = "POST" /\ work[v].req.method = "POST")
           /\ (/\ work[w].pc = "done" /\ work[v].pc = "done"
               /\ work[w].wrote = "POST" /\ work[v].wrote = "POST"
               /\ work[w].ret = BoolRet(TRUE) /\ work[v].ret = BoolRet(TRUE))
              => Cardinality(EntriesOf(registry, work[w].mac)) = 2

C15_Witness ==
    /\ DOMAIN work = {"w1", "w2"}
    /\ \A w \in DOMAIN work :
          /\ work[w].op = "set_client_name" /\ work[w].pc = "done"
          /\ work[w].mac = MacAB /\ work[w].wrote = "POST"
          /\ work[w].reply = HttpReply(200, Json(Str(<<>>)))
          /\ work[w].ret = BoolRet(TRUE)
    /\ Len(registry) = 2
    /\ registry[1].mac = Str(MacAB) /\ registry[2].mac = Str(MacAB)

\* two characters that spell the same thing: the same hex digit in either case,
\* or any two of the separators
Separators == {":", "-", "."}

SameChar(c, d) ==
    \/ c = d
    \/ {c, d} \subseteq {"a", "A"}
    \/ {c, d} \subseteq {"b", "B"}
    \/ {c, d} \subseteq Separators

\* every spelling of the address that x spells
Variants(x) == {y \in [DOMAIN x -> MacChars] : \A i \in DOMAIN x : SameChar(x[i], y[i])}

\* C16: MAC normalization is idempotent (normalizing a result gives that result
\* again) and gives every case/separator spelling of an address the same
\* lowercase colon-separated string.
C16_NormalizeIdempotent ==
    [][\A w \in DOMAIN work :
        work'[w].pc = "done"
        => /\ \A y \in Variants(work'[w].mac) : NormalizeMac(y) = work'[w].ret.val
           /\ \A i \in DOMAIN work'[w].ret.val :
                 work'[w].ret.val[i] \notin {"A", "B", "-", "."}
           /\ work[w].pc = "done" => work'[w].ret = work[w].ret
      ]_vars

C16_Witness ==
    \E w \in DOMAIN work :
        /\ work[w].op = "normalize" /\ work[w].pc = "done"
        /\ work[w].mac = <<"A", ".", "b">>
        /\ work[w].ret = ValRet(MacAB)

\* C17: get_client_by_mac(mac) enumerates once and returns the record the
\* enumeration holds under the normalized mac, or None when it holds none; it
\* returns nothing else (no default, no empty record, no other client's record).
C17_LookupResult ==
    \A w \in DOMAIN work :
        work[w].op = "get_client_by_mac"
        => /\ work[w].nreq <= 1
           /\ work[w].pc = "done"
              => /\ work[w].ret.kind \in {"value", "None", "raised"}
                 /\ work[w].ret.kind # "raised" => work[w].nreq = 1
                 /\ work[w].nreq = 1
                    => LET e == GetClientsEnd(work[w].reply)
                           n == NormalizeMac(work[w].mac)
                       IN  IF e.kind = "raised" THEN work[w].ret.kind = "raised"
                           ELSE IF n \in DOMAIN e.val
                           THEN work[w].ret = ValRet(e.val[n]) /\ work[w].ret.val.mac = n
                           ELSE work[w].ret = NoneRet

C17_Witness ==
    \E w \in DOMAIN work :
        /\ work[w].op = "get_client_by_mac" /\ work[w].pc = "done"
        /\ work[w].mac = <<"A", "-", "B">>
        /\ is_unifi_os
        /\ work[w].ret.kind = "value" /\ work[w].ret.val.mac = MacAB

\* C18: get_ap_name_by_mac never raises, and when the access-point enumeration
\* fails (not connected, non-200 status, transport or parse error) it returns
\* the normalized form of its argument.
C18_FailureLabel ==
    \A w \in DOMAIN work :
        (work[w].op = "get_ap_name_by_mac" /\ work[w].pc = "done")
        => /\ work[w].ret.kind = "value"
           /\ (work[w].nreq = 0 \/ GetAccessPointsEnd(work[w].reply).kind = "raised")
              => work[w].ret.val = NormalizeMac(work[w].mac)

\* the text of a field of an enumerated access point, "" when it has none
FieldText(v) ==
    IF is_unifi_os THEN (IF v.k = "str" THEN v.s ELSE "") ELSE v

C20_SuccessIffOk ==
    [][\A w \in DOMAIN work :
        (work'[w].op \in {"block_client", "unblock_client"} /\ work'[w] # work[w])
        => /\ UNCHANGED <<session, controller, opened, closed, sessHdr, lastLife>>
           /\ work'[w].nreq <= 1
           /\ work'[w].req # NoReq
              => work'[w].req.method = "POST" /\ work'[w].req.ep = "cmd/stamgr"
           /\ work'[w].pc = "done"
              => (work'[w].ret = BoolRet(TRUE)
                    <=> /\ work'[w].nreq = 1
                        /\ work'[w].reply.kind = "http"
                        /\ work'[w].reply.status = 200)
      ]_vars

C20_Witness ==
    \E w \in DOMAIN work :
        /\ work[w].op = "unblock_client" /\ work[w].pc = "done"
        /\ work[w].nreq = 1
        /\ work[w].reply.kind = "http" /\ work[w].reply.status = 200
        /\ work[w].ret = BoolRet(TRUE)

ControlOps == {"block_client", "unblock_client", "set_client_name"}

FetchFailed(r) ==
    \/ r.kind = "exc"
    \/ r.kind = "http" /\ (r.status # 200 \/ ~r.body.json)
    \/ r.kind = "lib" /\ ~r.ok

\* C22: get_clients and get_access_points raise whenever their request failed
\* and return a dictionary only when it succeeded; get_client_by_mac raises on
\* a failed request too, it does not return None.
C22_FailedFetchRaises ==
    \A w \in DOMAIN work :
        (/\ work[w].op \in {"get_clients", "get_access_points", "get_client_by_mac"}
         /\ work[w].pc = "done" /\ work[w].nreq = 1)
        => /\ FetchFailed(work[w].reply) => work[w].ret.kind = "raised"
           /\ work[w].ret.kind \in {"dict", "value", "None", "raised"}
           /\ work[w].ret.kind # "raised" => ~FetchFailed(work[w].reply)
           /\ work[w].op # "get_client_by_mac" => work[w].ret.kind \in {"dict", "raised"}

C22_Witness ==
    \E w \in DOMAIN work :
        /\ lastLife = "connected"
        /\ work[w].op = "get_client_by_mac" /\ work[w].pc = "done"
        /\ work[w].reply = HttpReply(401, NotJson)
        /\ work[w].ret = Raised(ApiFailedMsg(401))

\* an enumeration call that was answered: its raw records and what it returned
EnumDone(w) ==
    /\ work[w].op \in {"get_clients", "get_access_points"}
    /\ work[w].pc = "done" /\ work[w].nreq = 1
    /\ is_unifi_os
    /\ work[w].reply.kind = "http" /\ work[w].reply.status = 200
    /\ work[w].reply.body.json /\ work[w].reply.body.data # Absent

RawList(w) == work[w].reply.body.data.s

IsCanonical(k) == \A i \in DOMAIN k : k[i] \notin {"A", "B", "-", "."}

\* the raw record has a mac that is a non-empty string
UsableMac(rec) == rec.mac.k = "str" /\ rec.mac.s # <<>>

\* C23: in the dictionary of an API-key enumeration every key is lowercase and
\* colon-separated, every record's mac is its key, and no two keys spell the
\* same address, whatever case and separators the raw records use.
C23_CanonicalKeys ==
    \A w \in DOMAIN work :
        (EnumDone(w) /\ work[w].ret.kind = "dict")
        => LET d == work[w].ret.val IN
           /\ \A k \in DOMAIN d : IsCanonical(k) /\ d[k].mac = k
           /\ \A k1, k2 \in DOMAIN d : NormalizeMac(k1) = NormalizeMac(k2) => k1 = k2

\* C24: an API-key enumeration answered with a list never fails: it returns a
\* dictionary that holds every raw record with a usable mac (for access
\* points, every such 'uap' record), records whose mac is absent, empty or
\* null being dropped.
C24_BadRecordDropped ==
    \A w \in DOMAIN work :
        EnumDone(w)
        => /\ work[w].ret.kind = "dict"
           /\ \A i \in DOMAIN RawList(w) :
                (/\ UsableMac(RawList(w)[i])
                 /\ work[w].op = "get_access_points" => RawList(w)[i].type = Str("uap"))
                => Lower(RawList(w)[i].mac.s) \in DOMAIN work[w].ret.val

\* the raw devices get_access_points has to return
UapWithMac(l) == {i \in DOMAIN l : l[i].type = Str("uap") /\ UsableMac(l[i])}

\* C25: with an API key get_access_points returns exactly the 'uap' devices
\* of the response that have a mac: every one of them is in the result, and
\* every record of the result is one of them.
C25_OnlyAccessPoints ==
    \A w \in DOMAIN work :
        (EnumDone(w) /\ work[w].op = "get_access_points")
        => LET l == RawList(w) IN
           /\ (\A i \in DOMAIN l : l[i].type = Str("uap") => l[i].mac # Null)
              => work[w].ret.kind = "dict"
           /\ work[w].ret.kind = "dict"
              => /\ DOMAIN work[w].ret.val = {Lower(l[i].mac.s) : i \in UapWithMac(l)}
                 /\ \A k \in DOMAIN work[w].ret.val :
                       /\ work[w].ret.val[k].type = Str("uap")
                       /\ \E i \in UapWithMac(l) :
                             /\ Lower(l[i].mac.s) = k
                             /\ work[w].ret.val[k].name = Get(l[i].name, Null)

C25_Witness ==
    \E w \in DOMAIN work :
        /\ EnumDone(w) /\ work[w].op = "get_access_points"
        /\ RawList(w) = <<RawDevice(Str(<<"A", ":", "B">>), Str("uap"), Str("Lobby-AP"), Str("U6-Pro")),
                           RawDevice(Str(MacBA), Str("usw"), Absent, Str("U6-Pro"))>>
        /\ work[w].ret.kind = "dict"
        /\ DOMAIN work[w].ret.val = {MacAB}

\* a raw rate and the rate of the result: null for an absent or null rate,
\* otherwise the one-decimal value nearest to rate / 1000 (held in tenths)
RateConverted(raw, out) ==
    IF raw \in {Absent, Null} THEN out = Null
    ELSE /\ out.k = "num"
         /\ 100 * out.n - raw.n <= 50
         /\ raw.n - 100 * out.n <= 50
         /\ raw.n = 54000 => out.n = 540

C27_SessionUntouched ==
    [][work' # work
       => /\ UNCHANGED <<session, controller, opened, closed, sessHdr, lastLife>>
          /\ lastLife' = "connected" /\ session' # 0 /\ session' \notin closed'
          /\ \A w \in DOMAIN work :
                (work[w].pc = "await" /\ work'[w].pc = "done")
                => work'[w].ret
                     = AfterReply(work[w].op, work'[w].reply, work[w].mac, work[w].name).ret
      ]_vars

C27_Witness ==
    /\ DOMAIN work = {"w1", "w2"}
    /\ lastLife = "connected" /\ session = 1 /\ closed = {}
    /\ work["w1"].op = "get_clients" /\ work["w1"].pc = "done"
    /\ work["w1"].ret.kind = "raised"
    /\ work["w2"].op = "get_client_by_mac" /\ work["w2"].pc = "done"
    /\ work["w2"].ret.kind = "value"

\* C28: cancelling connect() while its probe or login is awaited leaves the
\* session it opened open and held by the instance; the session stays so until
\* disconnect() is called, and when that disconnect() has run the instance
\* holds no session and the session is closed.
C28_CancelKeepsSession ==
    [][/\ (life.pc = "c_await" /\ life'.pc = "done" /\ life'.ret = Raised(CancelledMsg))
          => /\ session' = life.sid /\ life.sid \notin closed'
             /\ controller' = controller
       /\ (lastLife = "cancelled" /\ lastLife' = "cancelled" /\ life'.pc # "closing")
          => session' = session /\ session' # 0 /\ session' \notin closed'
       /\ (lastLife = "cancelled" /\ lastLife' = "disconnected")
          => /\ life'.op = "disconnect"
             /\ session # 0 /\ session \in closed'
             /\ session' = 0 /\ controller' = 0
      ]_vars

C28_Witness ==
    /\ life.op = "disconnect" /\ life.pc = "done" /\ life.from = "cancelled"
    /\ lastLife = "disconnected"
    /\ session = 0 /\ closed = {1} /\ opened = 1

\* the failed attempts stored for ip that lie in the rate-limit window
FailedInWindow(ip) ==
    {i \in DOMAIN login_attempts[ip] :
        /\ ~login_attempts[ip][i].success
        /\ login_attempts[ip][i].ts > utcnow - 300}

\* C29: check_rate_limit(ip) returns (True, 0) while fewer than 5 failed
\* attempts of ip lie in the window and (False, wait > 0) once 5 do; nothing
\* else (successful attempts, attempts of other addresses) enters the outcome.
C29_RateLimitPerIp ==
    limit # NoCheck
    => IF Cardinality(FailedInWindow(limit.ip)) < 5
       THEN limit.allowed /\ limit.wait = 0
       ELSE ~limit.allowed /\ limit.wait > 0

C29_Witness ==
    /\ limit # NoCheck /\ limit.ip = "ip1"
    /\ ~limit.allowed /\ limit.wait = 150
    /\ \E i \in DOMAIN login_attempts["ip2"] : ~login_attempts["ip2"][i].success

\* C30: after record_login_attempt(ip, ...) every attempt stored for ip is
\* less than 300 seconds old, and an address whose stored failures have all
\* left the window is allowed again.
C30_OldAttemptsRemoved ==
    [][/\ \A ip \in Ips :
            login_attempts'[ip] # login_attempts[ip]
            => \A i \in DOMAIN login_attempts'[ip] :
                  login_attempts'[ip][i].ts > utcnow' - 300
       /\ (/\ limit' # NoCheck
           /\ \A i \in DOMAIN login_attempts'[limit'.ip] :
                  login_attempts'[limit'.ip][i].ts <= utcnow' - 300)
          => limit'.allowed /\ limit'.wait = 0
      ]_vars

C30_Witness ==
    /\ limit # NoCheck /\ limit.ip = "ip1" /\ limit.allowed
    /\ Len(Failures(login_attempts["ip1"])) = 5
    /\ login_attempts["ip1"][5].ts = 0
    /\ utcnow = 300

\* --------------------------------------------------------------- C31
\* the session create_session stored under a token, if the token was issued
\* and its expiry has not passed
LiveSession(token) ==
    IF token \in DOMAIN issued /\ ~(utcnow > issued[token].expires_at)
    THEN issued[token]
    ELSE Null

\* C31: verify_session(token) returns the session create_session stored (with
\* the username given to it) exactly when the token was issued and has not
\* expired, and None otherwise; after a call for an expired or unknown token
\* the token is not in the session store.
C31_VerifySession ==
    verified # NoVerify =>
        /\ verified.result = LiveSession(verified.token)
        /\ verified.result = Null => verified.token \notin DOMAIN sessions

\* an expired session was refused and removed while a younger one of the
\* other user is still stored
C31_Witness ==
    /\ verified # NoVerify
    /\ verified.token = 1
    /\ verified.result = Null
    /\ Len(issued) >= 2
    /\ issued[1].username = "admin"
    /\ utcnow > issued[1].expires_at
    /\ 1 \notin DOMAIN sessions
    /\ 2 \in DOMAIN sessions
    /\ sessions[2].username = "guest"
\* --------------------------------------------------------------- C32
\* the last call among the first i of the history that wrote or invalidated
\* the entry of key, Null if there is none
RECURSIVE LastWrite(_, _, _)
LastWrite(log, i, key) ==
    IF i = 0
    THEN Null
    ELSE IF log[i].kind = "invalidate_all" \/ log[i].key = key
         THEN log[i]
         ELSE LastWrite(log, i - 1, key)

\* C32: a get returns the value of the most recent set of that entry while
\* the entry is younger than CACHE_TTL_SECONDS; it returns None when nothing
\* was set, when the entry was invalidated since, and once the entry is older
\* than CACHE_TTL_SECONDS; it never returns any other value.
C32_ReadThrough ==
    got.kind = "get" =>
        LET w == LastWrite(calls, Len(calls), got.key) IN
        IF w = Null \/ w.kind # "set"
        THEN got.result = Null
        ELSE /\ utcnow - w.at < CACHE_TTL_SECONDS => got.result = w.data
             /\ utcnow - w.at > CACHE_TTL_SECONDS => got.result = Null
             /\ got.result \in {Null, w.data}

\* the overwritten value was read back fresh, and later the entry had expired
C32_Witness ==
    /\ got.kind = "get"
    /\ got.key = "gateway_info"
    /\ got.result = Null
    /\ Len(calls) = 2
    /\ calls[1] = [kind |-> "set", key |-> "gateway_info", data |-> [has_gateway |-> FALSE], at |-> 0]
    /\ calls[2].kind = "set"
    /\ calls[2].key = "gateway_info"
    /\ calls[2].data # calls[1].data
    /\ utcnow - calls[2].at > CACHE_TTL_SECONDS

\* --------------------------------------------------------------- C33
\* what a get of each entry returns from the cache c at time t
Reads(c, t) == [k \in CacheKeys |-> ReadEntry(c, k, t)]

\* C33: invalidate(key) makes the entry of key read as None and leaves what
\* every other entry reads as unchanged, also for a key that is not cached
\* (nothing is raised, nothing changes); after invalidate_all every entry
\* reads as None.
C33_InvalidateFrame ==
    [][ /\ calls' # calls /\ got'.kind = "invalidate" =>
            /\ got'.result = Null
            /\ \A k \in CacheKeys :
                 Reads(cache', utcnow')[k] =
                     IF k = got'.key THEN Null ELSE Reads(cache, utcnow)[k]
            /\ (got'.key \notin DOMAIN cache => cache' = cache)
        /\ calls' # calls /\ got'.kind = "invalidate_all" =>
            \A k \in CacheKeys : Reads(cache', utcnow')[k] = Null
      ]_vars

\* two entries are cached, one was invalidated, the other still reads its value
C33_Witness ==
    /\ got.kind = "invalidate"
    /\ got.key = "gateway_info"
    /\ Len(calls) = 3
    /\ calls[1].kind = "set" /\ calls[1].key = "gateway_info"
    /\ calls[2].kind = "set" /\ calls[2].key = "ips_settings"
    /\ Reads(cache, utcnow)["gateway_info"] = Null
    /\ Reads(cache, utcnow)["ips_settings"] = calls[2].data
\* --------------------------------------------------------------- C34
\* the caller decrypted what encrypt returned, the key being the same
RoundTripDone ==
    /\ crypt.pc = "decrypted"
    /\ crypt.given = "str"
    /\ crypt.dkey = crypt.ekey

\* bytes that are not a token of the key in use were handed to decrypt
InvalidGiven ==
    /\ crypt.pc = "decrypted"
    /\ FernetDecrypt(crypt.dkey, IF crypt.given = "str" THEN crypt.enc.val ELSE crypt.input).kind = "raised"

\* C34 as stated: every string is encrypted, decrypting the result under the
\* same key gives the string back (through either pair of names), and
\* decrypting bytes that are not a valid token raises.
C34_RoundTrip ==
    /\ (crypt.pc \in {"encrypted", "decrypted"} /\ crypt.given = "str") =>
           crypt.enc.kind = "value"
    /\ RoundTripDone => crypt.out = ValRet(crypt.input)
    /\ InvalidGiven => crypt.out.kind = "raised"

HasSurrogate(str) == \E i \in DOMAIN str : IsSurrogate(str[i])

\* C34, amended: every string without a lone surrogate is encrypted, and
\* decrypting the result under the same key gives the string back, through
\* either pair of names; encrypting a string with a lone surrogate raises
\* UnicodeEncodeError; decrypting bytes that are not a valid token raises.
C34_RoundTripEncodable ==
    /\ (crypt.pc \in {"encrypted", "decrypted"} /\ crypt.given = "str") =>
           IF HasSurrogate(crypt.input)
           THEN crypt.enc = Raised(EncodeErrorMsg)
           ELSE crypt.enc.kind = "value"
    /\ RoundTripDone => crypt.out = ValRet(crypt.input)
    /\ InvalidGiven => crypt.out = Raised(InvalidTokenMsg)

\* a non-ASCII API key came back from decrypt_api_key(encrypt_api_key(p))
C34_Witness ==
    /\ RoundTripDone
    /\ crypt.fn = "api_key"
    /\ crypt.input = <<233, 128274>>
    /\ crypt.enc.val.data = <<195, 169, 240, 159, 148, 146>>
    /\ crypt.out = ValRet(<<233, 128274>>)
\* --------------------------------------------------------------- C37
KeyConfigured == abuseipdb_api_key # NoKey /\ abuseipdb_api_key # ""

\* the address is one the library calls private, reserved or loopback
NotLookedUp(ip_str) ==
    /\ IpAddress(ip_str).valid
    /\ \/ IpAddress(ip_str).is_private
       \/ IpAddress(ip_str).is_reserved
       \/ IpAddress(ip_str).is_loopback

RiskOf(score) ==
    CASE score >= 80 -> "critical"
      [] score >= 50 /\ score < 80 -> "high"
      [] score >= 25 /\ score < 50 -> "medium"
      [] score > 0 /\ score < 25 -> "low"
      [] score <= 0 -> "clean"

\* C37: check_ip sends a request to AbuseIPDB only with a key configured and
\* for an address that is not private, reserved or loopback; without a key
\* it fails with 503 having sent nothing; for a private, reserved or
\* loopback address it returns clean, score 0, is_public false, having sent
\* nothing; a looked-up score gets the risk level of the thresholds.
C37_LookupGuard ==
    lookup.pc # "idle" =>
        /\ lookup.req # NoReq => KeyConfigured /\ ~NotLookedUp(lookup.ip_address)
        /\ ~KeyConfigured => lookup.pc = "done" /\ lookup.ret = HttpError(503) /\ lookup.req = NoReq
        /\ (KeyConfigured /\ NotLookedUp(lookup.ip_address)) =>
               /\ lookup.pc = "done"
               /\ lookup.req = NoReq
               /\ lookup.ret.kind = "response"
               /\ lookup.ret.risk_level = "clean"
               /\ lookup.ret.abuse_confidence_score = 0
               /\ lookup.ret.is_public = FALSE
        /\ (lookup.pc = "done" /\ lookup.req # NoReq /\ lookup.ret.kind = "response") =>
               /\ lookup.reply.body.data.abuseConfidenceScore
                      \in {Absent, Num(lookup.ret.abuse_confidence_score)}
               /\ lookup.ret.risk_level = RiskOf(lookup.ret.abuse_confidence_score)

\* a public address was looked up and its score of 80 classified critical
C37_Witness ==
    /\ lookup.pc = "done"
    /\ lookup.ip_address = "8.8.8.8"
    /\ lookup.req # NoReq
    /\ lookup.reply = HttpReply(200, Json(IntelData(Num(80))))
    /\ lookup.ret.kind = "response"
    /\ lookup.ret.risk_level = "critical"
\* --------------------------------------------------------------- C35
\* C35: between awaits the instance has a controller only while it has a
\* session; with an API key it never has a controller; with
\* username/password an instance that has a session has a controller, so no
\* call ends with "Controller not initialized".
C35_ControllerWithSession ==
    /\ controller # 0 => session # 0
    /\ is_unifi_os => controller = 0
    /\ (~is_unifi_os /\ session # 0) => controller # 0
    /\ \A w \in DOMAIN work :
         work[w].ret.kind = "raised" => work[w].ret.error # NoControllerMsg
    /\ life.ret.kind = "result" => (~life.ret.connected => life.ret.error # NoControllerMsg)

\* a username/password instance reconnected: it holds its second session and
\* the controller wrapping it, and get_clients was served by that controller
C35_Witness ==
    /\ ~is_unifi_os
    /\ opened = 2
    /\ session = 2
    /\ controller = 2
    /\ \E w \in DOMAIN work :
         /\ work[w].op = "get_clients"
         /\ work[w].pc = "done"
         /\ work[w].reply.kind = "lib"
         /\ work[w].ret.kind = "dict"
\* --------------------------------------------------------------- C36
\* the frames of set_client_name calls whose registry GET was answered
NameCalls == {w \in DOMAIN work : work[w].op = "set_client_name" /\ work[w].reply # NoReply}

Answered200(r) == r.kind = "http" /\ r.status = 200

\* the positions of the entries of a registry listing stored under mac
Matches(users, mac) ==
    {i \in DOMAIN users : users[i].mac.k = "str" /\ Lower(users[i].mac.s) = Lower(mac)}

\* the GET returned a listing that holds an entry for mac
Found(r, mac) == Answered200(r) /\ r.body.json /\ Matches(r.body.data.s, mac) # {}

\* the requests of the call: one GET, then the write if there is one, and the
\* value returned once the call is done
WritePattern(f) ==
    /\ f.nreq = (IF f.wrote = "none" THEN 1 ELSE 2)
    /\ f.wrote \in {"none", "PUT", "POST"}
    /\ (f.pc = "write" /\ f.wrote = "PUT") =>
           \E i \in Matches(f.reply.body.data.s, f.mac) :
               f.req.ep = <<"rest/user", f.reply.body.data.s[i].id>>
    /\ (f.pc = "write" /\ f.wrote = "POST") => f.req.ep = "rest/user"
    /\ f.pc = "done" =>
           (f.ret = BoolRet(TRUE) <=> f.wrote # "none" /\ Answered200(f.wreply))

\* C36 as stated: one GET, then a PUT exactly when a matching entry was found,
\* a POST exactly when the GET was answered 200 and none was found, no write
\* when the GET status is not 200; True exactly when the write was answered
\* 200; never a PUT and a POST.
C36_WriteAfterLookup ==
    \A w \in NameCalls :
        LET f == work[w] IN
        /\ WritePattern(f)
        /\ f.wrote = "PUT" <=> Found(f.reply, f.mac)
        /\ f.wrote = "POST" <=> (Answered200(f.reply) /\ ~Found(f.reply, f.mac))
        /\ ~Answered200(f.reply) => f.wrote = "none"

\* the search of the listing ran to its end or to a match: the body is JSON
\* and no entry with a null mac comes before the first match
Searched(r, mac) ==
    /\ Answered200(r)
    /\ r.body.json
    /\ LET users == r.body.data.s IN
       \A i \in DOMAIN users :
           (\A j \in Matches(users, mac) : i < j) => users[i].mac.k # "null"

\* C36, amended: one GET, then at most one write.  When the GET is answered
\* 200 with a listing that can be searched, a PUT to the entry found or, if
\* none is found, a POST.  No write and the value False when the GET fails in
\* transport, is not answered 200, has a body that is not JSON, or lists an
\* entry with a null mac before any match.  True exactly when the write was
\* answered 200; never a PUT and a POST.
C36_WriteAfterSearch ==
    \A w \in NameCalls :
        LET f == work[w] IN
        /\ WritePattern(f)
        /\ f.wrote = "PUT" <=> (Searched(f.reply, f.mac) /\ Found(f.reply, f.mac))
        /\ f.wrote = "POST" <=> (Searched(f.reply, f.mac) /\ ~Found(f.reply, f.mac))
        /\ ~Searched(f.reply, f.mac) => (f.wrote = "none" /\ f.pc = "done" /\ f.ret = BoolRet(FALSE))

\* the second of two registry entries matched and its PUT was answered 200
C36_Witness ==
    \E w \in NameCalls :
        /\ work[w].pc = "done"
        /\ work[w].mac = MacAB
        /\ work[w].reply = HttpReply(200, Json(Str(<<User("u1", Str(MacBA), "old"),
                                                     User("u2", Str(MacAB), "old")>>)))
        /\ work[w].wrote = "PUT"
        /\ work[w].wreply = HttpReply(200, NotJson)
        /\ work[w].ret = BoolRet(TRUE)
====
